---- MODULE Spec2Model ----
(***************************************************************************)
(* State-machine model of the lease-analysis backend:                      *)
(*   - the sliding-window rate limiter of /clause/quick-analyze            *)
(*     (routes/lease_routes.py, check_rate_limit),                         *)
(*   - the access/quota gate and the /analyze and /ocr coordinators        *)
(*     (routes/lease_routes.py),                                           *)
(*   - the LLM extraction orchestrator, the recovery of JSON from a reply  *)
(*     and the regex fallback (services/ocr_service.py),                   *)
(*   - the high-risk clause filter (utils/text_parser.py),                 *)
(*   - the billing grant (routes/billing_routes.py).                       *)
(* Time is an integer number of hours since process start.                 *)
(***************************************************************************)
EXTENDS Integers, Sequences, FiniteSets, TLC

VARIABLES
    now,                        \* datetime.now(), in hours
    QUICK_ANALYZE_RATE_LIMITS,  \* store.py: user key -> list of timestamps
    IP_RATE_LIMITS,             \* store.py: ip key   -> list of timestamps
    rl_last,                    \* arguments and return value of the last check_rate_limit call
    USER_ACCESS_STORE,          \* store.py: user -> [expires_at, analysis_ids]
    USER_FREE_ANALYSIS_STORE,   \* store.py: user -> True once the free analysis is used
    ANALYSIS_STORE,             \* store.py: analysis id -> record
    bypass_users,               \* config: the users settings.should_bypass_test_user accepts
    access_info,                \* return value of the last check_user_access call
    resp,                       \* the response of the last /analyze, /ocr or /access request
    temp,                       \* temp paths the last request acquired, listed and released
    call,                       \* the analyze_lease_via_deepseek call in progress or just returned
    subscriptions,              \* the subscriptions table: userId -> [currentPeriodEnd]
    granted,                    \* return value of the last grant_user_access call
    PENDING_PAYMENTS,           \* billing_routes.py: checkout id or user id -> [user_id]
    webhook,                    \* the last /webhook delivery and its response status
    inflight                    \* the requests suspended at an await, in order of arrival

rateVars == <<QUICK_ANALYZE_RATE_LIMITS, IP_RATE_LIMITS, rl_last>>
storeVars == <<USER_ACCESS_STORE, USER_FREE_ANALYSIS_STORE, ANALYSIS_STORE>>
gateVars == <<USER_ACCESS_STORE, USER_FREE_ANALYSIS_STORE, ANALYSIS_STORE, bypass_users,
              access_info, resp, temp>>

billingVars == <<subscriptions, granted, PENDING_PAYMENTS, webhook>>

vars == <<now, QUICK_ANALYZE_RATE_LIMITS, IP_RATE_LIMITS, rl_last, USER_ACCESS_STORE,
          USER_FREE_ANALYSIS_STORE, ANALYSIS_STORE, bypass_users, access_info, resp, temp,
          call, subscriptions, granted, PENDING_PAYMENTS, webhook, inflight>>

----------------------------------------------------------------------------
(* Program constants (store.py) *)

QUICK_ANALYZE_WINDOW == 24
QUICK_ANALYZE_USER_LIMIT == 3
QUICK_ANALYZE_IP_LIMIT == 20
FULL_ANALYSIS_LEASE_LIMIT == 5
MAX_PAGES == 40

(* Bounds of the model *)

ClockStep == 12         \* hours by which one clock step advances
MaxRateTicks == 2       \* clock steps taken in the rate-limiter specification
GateClockStep == 720    \* hours by which the clock advances between gated requests
MaxGateTicks == 1       \* clock steps taken in the gate specification
MaxAnalyses == 6        \* analyses stored before /analyze stops being called

Users == {"u1", "u2"}
IPs == {"ip1"}

None == "None"

----------------------------------------------------------------------------
(* Python helpers *)

\* dict.get(key, default)
Get(d, k, default) == IF k \in DOMAIN d THEN d[k] ELSE default

\* d[key] = value
Put(d, k, v) == [x \in DOMAIN d \cup {k} |-> IF x = k THEN v ELSE d[x]]

Max(a, b) == IF a >= b THEN a ELSE b

----------------------------------------------------------------------------
(* check_rate_limit, routes/lease_routes.py:938-984 *)

\* [ts for ts in list if ts > window_start]
PruneOld_OffByOne(list, t) ==
    LET window_start == t - QUICK_ANALYZE_WINDOW
        keep(ts) == ts >= window_start
    IN SelectSeq(list, keep)

PruneOld(list, t) ==
    LET window_start == t - QUICK_ANALYZE_WINDOW
        keep(ts) == ts > window_start
    IN SelectSeq(list, keep)

\* the clean-up of one store: only a key that is present is rewritten
CleanUp(store, key, t) ==
    IF key \in DOMAIN store THEN Put(store, key, PruneOld(store[key], t)) ELSE store

UserLimitExceeded_Gt(user_requests) == Len(user_requests) > QUICK_ANALYZE_USER_LIMIT

UserLimitExceeded(user_requests) == Len(user_requests) >= QUICK_ANALYZE_USER_LIMIT

IpLimitExceeded_Gt(ip_requests) == Len(ip_requests) > QUICK_ANALYZE_IP_LIMIT

IpLimitExceeded(ip_requests) == Len(ip_requests) >= QUICK_ANALYZE_IP_LIMIT

\* "Record this request" for one store
Record(store, key, t) == Put(store, key, Append(Get(store, key, <<>>), t))

\* The whole call.  tracked = FALSE is the call of a fresh user key, whose
\* window is empty before the call and is never read again.
check_rate_limit_CountDenied(user_id, ip_address, tracked) ==
    LET users1 == IF tracked THEN CleanUp(QUICK_ANALYZE_RATE_LIMITS, user_id, now)
                             ELSE QUICK_ANALYZE_RATE_LIMITS
        ips1 == CleanUp(IP_RATE_LIMITS, ip_address, now)
        user_requests == IF tracked THEN Get(users1, user_id, <<>>) ELSE <<>>
        ip_requests == Get(ips1, ip_address, <<>>)
        seq == 1 - rl_last.seq
    IN  IF UserLimitExceeded(user_requests)
        THEN /\ QUICK_ANALYZE_RATE_LIMITS' = users1
             /\ IP_RATE_LIMITS' = Record(ips1, ip_address, now)
             /\ rl_last' = [user_id |-> user_id, ip_address |-> ip_address,
                            allowed |-> FALSE, remaining |-> 0, seq |-> seq]
        ELSE IF IpLimitExceeded(ip_requests)
        THEN /\ QUICK_ANALYZE_RATE_LIMITS' = users1
             /\ IP_RATE_LIMITS' = ips1
             /\ rl_last' = [user_id |-> user_id, ip_address |-> ip_address,
                            allowed |-> FALSE,
                            remaining |-> Max(0, QUICK_ANALYZE_USER_LIMIT - Len(user_requests)),
                            seq |-> seq]
        ELSE /\ QUICK_ANALYZE_RATE_LIMITS' =
                    IF tracked THEN Record(users1, user_id, now) ELSE users1
             /\ IP_RATE_LIMITS' = Record(ips1, ip_address, now)
             /\ rl_last' = [user_id |-> user_id, ip_address |-> ip_address,
                            allowed |-> TRUE,
                            remaining |-> QUICK_ANALYZE_USER_LIMIT - (Len(user_requests) + 1),
                            seq |-> seq]

check_rate_limit(user_id, ip_address, tracked) ==
    LET users1 == IF tracked THEN CleanUp(QUICK_ANALYZE_RATE_LIMITS, user_id, now)
                             ELSE QUICK_ANALYZE_RATE_LIMITS
        ips1 == CleanUp(IP_RATE_LIMITS, ip_address, now)
        user_requests == IF tracked THEN Get(users1, user_id, <<>>) ELSE <<>>
        ip_requests == Get(ips1, ip_address, <<>>)
        seq == 1 - rl_last.seq
    IN  IF UserLimitExceeded(user_requests)
        THEN /\ QUICK_ANALYZE_RATE_LIMITS' = users1
             /\ IP_RATE_LIMITS' = ips1
             /\ rl_last' = [user_id |-> user_id, ip_address |-> ip_address,
                            allowed |-> FALSE, remaining |-> 0, seq |-> seq]
        ELSE IF IpLimitExceeded(ip_requests)
        THEN /\ QUICK_ANALYZE_RATE_LIMITS' = users1
             /\ IP_RATE_LIMITS' = ips1
             /\ rl_last' = [user_id |-> user_id, ip_address |-> ip_address,
                            allowed |-> FALSE,
                            remaining |-> Max(0, QUICK_ANALYZE_USER_LIMIT - Len(user_requests)),
                            seq |-> seq]
        ELSE /\ QUICK_ANALYZE_RATE_LIMITS' =
                    IF tracked THEN Record(users1, user_id, now) ELSE users1
             /\ IP_RATE_LIMITS' = Record(ips1, ip_address, now)
             /\ rl_last' = [user_id |-> user_id, ip_address |-> ip_address,
                            allowed |-> TRUE,
                            remaining |-> QUICK_ANALYZE_USER_LIMIT - (Len(user_requests) + 1),
                            seq |-> seq]

NoResp == [op |-> None, user_id |-> None, status |-> 0, body |-> None, seq |-> 0]
NoTemp == [acquired |-> <<>>, listed |-> <<>>, released |-> <<>>]
NoExtract == [state |-> "idle"]
NoGrant == [user_id |-> None, plan |-> None, raised |-> FALSE, is_paid |-> FALSE,
            paid_at |-> 0, expires_at |-> 0, analysis_ids |-> <<>>, seq |-> 0]

\* the process has just started: every store of store.py is empty
StoresEmpty ==
    LET NoWebhook == [signature |-> "", verified |-> FALSE, success_event |-> FALSE,
                      custom_data |-> None, checkout |-> None, id |-> None,
                      customer |-> None, status |-> 0]
        NoCall == [user_id |-> None, ip_address |-> None, allowed |-> FALSE, remaining |-> 0, seq |-> 0]
    IN  /\ now = 0
        /\ QUICK_ANALYZE_RATE_LIMITS = << >>
        /\ IP_RATE_LIMITS = << >>
        /\ rl_last = NoCall
        /\ USER_ACCESS_STORE = << >>
        /\ USER_FREE_ANALYSIS_STORE = << >>
        /\ ANALYSIS_STORE = << >>
        /\ access_info = [user_id |-> None, has_access |-> FALSE, reason |-> None]
        /\ resp = NoResp
        /\ temp = NoTemp
        /\ call = NoExtract
        /\ subscriptions = << >>
        /\ granted = NoGrant
        /\ PENDING_PAYMENTS = << >>
        /\ webhook = NoWebhook
        /\ inflight = <<>>

InitNoBypass ==
    /\ StoresEmpty
    /\ bypass_users = {}

\* quick_analyze_clause reaches check_rate_limit (lease_routes.py:1132-1135)
CheckRateLimit ==
    /\ \E u \in Users, ip \in IPs : check_rate_limit(u, ip, TRUE)
    /\ UNCHANGED <<inflight, billingVars, now, gateVars, call>>

CheckRateLimitFresh ==
    \* A user key that has never called before and never calls again (there is
    \* no bound on the X-User-ID values one address can send); its own window
    \* is not tracked.
    /\ \E ip \in IPs : check_rate_limit("fresh", ip, FALSE)
    /\ UNCHANGED <<inflight, billingVars, now, gateVars, call>>

\* the wall clock advances between requests
TickRate ==
    /\ now + ClockStep <= MaxRateTicks * ClockStep
    /\ now' = now + ClockStep
    /\ UNCHANGED <<inflight, billingVars, rateVars, gateVars, call>>

NextRate == CheckRateLimit \/ CheckRateLimitFresh \/ TickRate

SpecRate == InitNoBypass /\ [][NextRate]_vars

----------------------------------------------------------------------------
(* Properties of the rate limiter *)

\* the entries of a window that are less than 24 hours old at time t
Live(list, t) ==
    LET young(ts) == t - ts < QUICK_ANALYZE_WINDOW IN SelectSeq(list, young)

\* a step that is one check_rate_limit call
IsRateCall == rl_last'.seq # rl_last.seq

\* C1: for a user key with ceiling 3 per 24h whose IP key is under its
\* ceiling, a call is admitted while the window holds 0, 1 or 2 live
\* admissions, the call made with 3 live admissions (the fourth within 24h)
\* is denied with remaining = 0, and a call made once every recorded
\* admission is 24h old or older is admitted again.
C1_ThreeThenDenyThenReadmit ==
    [][(IsRateCall /\ rl_last'.user_id \in Users) =>
        LET u == rl_last'.user_id
            ip == rl_last'.ip_address
            mine == Get(QUICK_ANALYZE_RATE_LIMITS, u, <<>>)
            ipUnder == Len(Live(Get(IP_RATE_LIMITS, ip, <<>>), now)) < 20
        IN  ipUnder =>
              /\ Len(Live(mine, now)) \in {0, 1, 2} => rl_last'.allowed
              /\ Len(Live(mine, now)) = 3 =>
                    (~rl_last'.allowed /\ rl_last'.remaining = 0)
              /\ (\A i \in 1..Len(mine) : now - mine[i] >= 24) =>
                    (rl_last'.allowed /\ QUICK_ANALYZE_RATE_LIMITS'[u] = <<now>>)]_vars

\* the fourth call inside the window has just been denied with remaining = 0
\* while the IP key was under its ceiling
C1_Witness ==
    /\ rl_last.user_id \in Users
    /\ ~rl_last.allowed
    /\ rl_last.remaining = 0
    /\ Len(Live(QUICK_ANALYZE_RATE_LIMITS[rl_last.user_id], now)) = 3
    /\ QUICK_ANALYZE_RATE_LIMITS[rl_last.user_id][1] < now
    /\ Len(IP_RATE_LIMITS[rl_last.ip_address]) < 20

\* C2: after a successful admission the number of timestamps inside the
\* trailing 24h window is at most 3 for the admitted user key and at most 20
\* for the admitted IP key.
C2_WindowWithinCeiling ==
    rl_last.allowed =>
        /\ rl_last.user_id \in Users =>
              Len(Live(QUICK_ANALYZE_RATE_LIMITS[rl_last.user_id], now)) <= 3
        /\ Len(Live(IP_RATE_LIMITS[rl_last.ip_address], now)) <= 20

\* an admission that fills both windows to their ceilings
C2_Witness ==
    /\ rl_last.allowed
    /\ rl_last.user_id \in Users
    /\ Len(Live(QUICK_ANALYZE_RATE_LIMITS[rl_last.user_id], now)) = 3
    /\ Len(Live(IP_RATE_LIMITS[rl_last.ip_address], now)) = 20

\* C3: a call is admitted if and only if, after pruning the entries older
\* than the window, the user key is below the user ceiling and the IP key is
\* below the IP ceiling; an admission appends exactly the current time to
\* the pruned user window and to the pruned IP window.
C3_AdmitIffBothUnder ==
    [][IsRateCall =>
        LET u == rl_last'.user_id
            ip == rl_last'.ip_address
            mine == IF u \in Users THEN Live(Get(QUICK_ANALYZE_RATE_LIMITS, u, <<>>), now)
                                   ELSE <<>>
            theirs == Live(Get(IP_RATE_LIMITS, ip, <<>>), now)
        IN  /\ rl_last'.allowed <=>
                  (Len(mine) < QUICK_ANALYZE_USER_LIMIT /\ Len(theirs) < QUICK_ANALYZE_IP_LIMIT)
            /\ rl_last'.allowed =>
                  /\ u \in Users => QUICK_ANALYZE_RATE_LIMITS'[u] = Append(mine, now)
                  /\ IP_RATE_LIMITS'[ip] = Append(theirs, now)]_vars

\* an admission that pruned an expired entry of the user window first
C3_Witness ==
    /\ rl_last.allowed
    /\ rl_last.user_id \in Users
    /\ now >= QUICK_ANALYZE_WINDOW
    /\ Len(QUICK_ANALYZE_RATE_LIMITS[rl_last.user_id]) = 2
    /\ QUICK_ANALYZE_RATE_LIMITS[rl_last.user_id][1] < now
    /\ Len(IP_RATE_LIMITS[rl_last.ip_address]) >= 2

\* C27: a denied call records nothing.  Apart from the pruning of the
\* entries of the two keys of the call that are older than the window,
\* every user window and every IP window is as before the call, and no key
\* is added.
C27_DenialRecordsNothing ==
    [][(IsRateCall /\ ~rl_last'.allowed) =>
          /\ DOMAIN QUICK_ANALYZE_RATE_LIMITS' = DOMAIN QUICK_ANALYZE_RATE_LIMITS
          /\ DOMAIN IP_RATE_LIMITS' = DOMAIN IP_RATE_LIMITS
          /\ \A k \in DOMAIN QUICK_ANALYZE_RATE_LIMITS :
                QUICK_ANALYZE_RATE_LIMITS'[k] =
                    IF k = rl_last'.user_id THEN Live(QUICK_ANALYZE_RATE_LIMITS[k], now)
                    ELSE QUICK_ANALYZE_RATE_LIMITS[k]
          /\ \A k \in DOMAIN IP_RATE_LIMITS :
                IP_RATE_LIMITS'[k] =
                    IF k = rl_last'.ip_address THEN Live(IP_RATE_LIMITS[k], now)
                    ELSE IP_RATE_LIMITS[k]]_vars

\* a call has just been denied on the user axis while the IP key was under
\* its ceiling and held live entries
C27_Witness ==
    /\ rl_last.user_id \in Users
    /\ ~rl_last.allowed
    /\ Len(QUICK_ANALYZE_RATE_LIMITS[rl_last.user_id]) = QUICK_ANALYZE_USER_LIMIT
    /\ Len(IP_RATE_LIMITS[rl_last.ip_address]) \in 4..(QUICK_ANALYZE_IP_LIMIT - 1)

----------------------------------------------------------------------------
(* Text helpers (Python str) : a text is a sequence of one-character strings *)

Whitespace == {" ", "\n", "\t"}

RECURSIVE lstrip(_)
lstrip(s) == IF s = <<>> THEN s
             ELSE IF Head(s) \in Whitespace THEN lstrip(Tail(s)) ELSE s

RECURSIVE rstrip(_)
rstrip(s) == IF s = <<>> THEN s
             ELSE IF s[Len(s)] \in Whitespace THEN rstrip(SubSeq(s, 1, Len(s) - 1)) ELSE s

\* str.strip()
strip(s) == rstrip(lstrip(s))

\* not full_text or not full_text.strip()
IsBlank_EmptyOnly(full_text) == full_text = <<>>

IsBlank(full_text) == full_text = <<>> \/ strip(full_text) = <<>>

----------------------------------------------------------------------------
(* The access gate, routes/lease_routes.py *)

\* has_valid_paid_access, lease_routes.py:45-52.  Every record of the store
\* carries expires_at (the record without it, lines 625-626, is written only
\* for a user who has no record, and such a user is denied at line 501).
has_valid_paid_access(user_id) ==
    IF user_id \notin DOMAIN USER_ACCESS_STORE THEN FALSE
    ELSE now < USER_ACCESS_STORE[user_id].expires_at

\* check_user_access, lease_routes.py:455-489 (the fields the callers read)
LimitReached_Gt(analyses_count) == analyses_count > FULL_ANALYSIS_LEASE_LIMIT

LimitReached(analyses_count) == analyses_count >= FULL_ANALYSIS_LEASE_LIMIT

check_user_access(user_id) ==
    IF user_id \notin DOMAIN USER_ACCESS_STORE
    THEN [user_id |-> user_id, has_access |-> FALSE, reason |-> None]
    ELSE LET access == USER_ACCESS_STORE[user_id]
             analyses_count == Len(access.analysis_ids)
         IN  IF now >= access.expires_at
             THEN [user_id |-> user_id, has_access |-> FALSE, reason |-> None]
             ELSE IF LimitReached(analyses_count)
             THEN [user_id |-> user_id, has_access |-> FALSE, reason |-> "lease_limit_reached"]
             ELSE [user_id |-> user_id, has_access |-> TRUE, reason |-> None]

\* settings.should_bypass_test_user(user_id), called at lease_routes.py:741
should_bypass_test_user(user_id) == user_id \in bypass_users

\* get_subscription_duration, billing_routes.py:47-50 (days)
get_subscription_duration(plan) == IF plan = "monthly" THEN 30 ELSE 365

\* The in-memory grant of the billing module that writes USER_ACCESS_STORE:
\* expiry 30 or 365 days from grant time, analysis_ids reset only when no
\* record existed before.
grant_access(user_id, plan) ==
    LET duration_days == get_subscription_duration(plan)
        old_ids == IF user_id \in DOMAIN USER_ACCESS_STORE
                   THEN USER_ACCESS_STORE[user_id].analysis_ids ELSE <<>>
    IN  /\ USER_ACCESS_STORE' = Put(USER_ACCESS_STORE, user_id,
                                    [expires_at |-> now + 24 * duration_days,
                                     analysis_ids |-> old_ids])
        /\ UNCHANGED <<USER_FREE_ANALYSIS_STORE, ANALYSIS_STORE, bypass_users,
                       access_info, resp, temp>>

----------------------------------------------------------------------------
(* Uploaded files and temp paths.  An upload is [kind, pages]: kind is "pdf", *)
(* "image" or "other" (an unsupported suffix, or no filename at all); pages   *)
(* is the number of images pdf_to_images returns for a PDF.  The saved copy   *)
(* of upload i is the path <<i, 0>>, page k of PDF i is the path <<i, k>>.    *)
(* fault = [at, where, exc] makes the call `where` ("save", "pdf") of upload  *)
(* `at` raise `exc` ("http" for an HTTPException, "other" for any other       *)
(* exception); at = 0 is a run without a raising collaborator.                *)

PdfPages(i, n) == [k \in 1..n |-> <<i, k>>]

\* the loop of analyze_lease, lease_routes.py:519-537
RECURSIVE analyze_loop(_, _, _, _)
analyze_loop(files, fault, i, st) ==
    IF i > Len(files) THEN st
    ELSE IF fault.at = i /\ fault.where = "save" THEN [st EXCEPT !.exc = fault.exc]
    ELSE LET saved == [st EXCEPT !.acquired = Append(@, <<i, 0>>),
                                 !.listed = Append(@, <<i, 0>>)]
         IN  IF files[i].kind = "pdf"
             THEN IF fault.at = i /\ fault.where = "pdf"
                  THEN [saved EXCEPT !.exc = fault.exc]
                  ELSE analyze_loop(files, fault, i + 1,
                          [saved EXCEPT !.acquired = @ \o PdfPages(i, files[i].pages),
                                        !.listed = @ \o PdfPages(i, files[i].pages),
                                        !.images = @ \o PdfPages(i, files[i].pages)])
             ELSE IF files[i].kind = "image"
             THEN analyze_loop(files, fault, i + 1,
                               [saved EXCEPT !.images = Append(@, <<i, 0>>)])
             ELSE [saved EXCEPT !.exc = "unsupported"]

\* the loop of ocr_lease, lease_routes.py:768-788
RECURSIVE ocr_loop(_, _, _, _)
ocr_loop(files, fault, i, st) ==
    IF i > Len(files) THEN st
    ELSE IF files[i].kind = "other" THEN ocr_loop(files, fault, i + 1, st)
    ELSE IF fault.at = i /\ fault.where = "save" THEN [st EXCEPT !.exc = fault.exc]
    ELSE LET saved == [st EXCEPT !.acquired = Append(@, <<i, 0>>),
                                 !.listed = Append(@, <<i, 0>>)]
         IN  IF files[i].kind = "pdf"
             THEN IF fault.at = i /\ fault.where = "pdf"
                  THEN [saved EXCEPT !.exc = fault.exc]
                  ELSE ocr_loop(files, fault, i + 1,
                          [saved EXCEPT !.acquired = @ \o PdfPages(i, files[i].pages),
                                        !.listed = @ \o PdfPages(i, files[i].pages),
                                        !.images = @ \o PdfPages(i, files[i].pages)])
             ELSE ocr_loop(files, fault, i + 1,
                           [saved EXCEPT !.images = Append(@, <<i, 0>>)])

LoopStart == [acquired |-> <<>>, listed |-> <<>>, images |-> <<>>, exc |-> "none"]

\* the finally block (lease_routes.py:676-678, 816-818): the paths handed to
\* cleanup_file, in order, whatever way the handler is left (exc)
Finally_NotOnRaise(listed, exc) == IF exc \in {"http", "unsupported", "no_pages"} THEN <<>> ELSE listed

Finally(listed, exc) == listed

\* what the handler answers when it is left by an exception
\* (except HTTPException: raise / except Exception: return success False)
RaisedResponse(exc) ==
    CASE exc = "unsupported" -> [status |-> 400, body |-> "unsupported_format"]
      [] exc = "no_pages" -> [status |-> 400, body |-> "no_pages"]
      [] exc = "too_many_pages" -> [status |-> 400, body |-> "too_many_pages"]
      [] exc = "http" -> [status |-> 400, body |-> "http_error"]
      [] OTHER -> [status |-> 200, body |-> "error"]

Response(op, user_id, r) ==
    [op |-> op, user_id |-> user_id, status |-> r.status, body |-> r.body,
     seq |-> 1 - resp.seq]

\* str(uuid.uuid4()), lease_routes.py:608: an identifier no stored analysis
\* has.  Which fresh identifier is drawn has no effect on the program; the
\* model draws <<user, k>> for the k-th analysis stored for the user.
NewAnalysisId_Reuse(user_id) == <<user_id, 1>>

NewAnalysisId(user_id) ==
    <<user_id, 1 + Cardinality({a \in DOMAIN ANALYSIS_STORE :
                                    ANALYSIS_STORE[a].user_id = user_id})>>

\* USER_ACCESS_STORE[user_id]["analysis_ids"].append(analysis_id) unless it is
\* already listed, lease_routes.py:625-628
AppendAnalysisId(store, user_id, analysis_id) ==
    IF \E i \in 1..Len(store[user_id].analysis_ids) :
            store[user_id].analysis_ids[i] = analysis_id
    THEN store
    ELSE [store EXCEPT ![user_id].analysis_ids = Append(@, analysis_id)]

\* the gate of /analyze, lease_routes.py:501
AnalyzeGate(user_id) == has_valid_paid_access(user_id)

\* analyze_lease, lease_routes.py:492-678: the gate, and what the handler
\* does once the request is past it.  full_text is what the OCR service reads
\* from the pages; lease_data is what analyze_lease_via_deepseek does with
\* it: [raised, clauses], the call raising or returning a dict with these
\* clauses.
analyze_admitted(user_id, files, fault, full_text, lease_data) ==
    LET \* [c for c in all_clauses if c.get("risk_level") == "high"], lease_routes.py:600
        HighRiskOf(all_clauses) ==
            SelectSeq(all_clauses, LAMBDA c : Get(c, "risk_level", None) = "high")
        st == analyze_loop(files, fault, 1, LoopStart)
        exc == IF st.exc # "none" THEN st.exc
               ELSE IF st.images = <<>> THEN "no_pages"
               ELSE IF Len(st.images) > MAX_PAGES THEN "too_many_pages"
               ELSE "none"
        analysis_id == NewAnalysisId(user_id)
    IN  /\ temp' = [acquired |-> st.acquired, listed |-> st.listed,
                    released |-> Finally(st.listed, exc)]
        /\ IF exc # "none"
           THEN /\ resp' = Response("analyze", user_id, RaisedResponse(exc))
                /\ UNCHANGED storeVars
           ELSE IF IsBlank(full_text)
           THEN /\ resp' = Response("analyze", user_id, [status |-> 200, body |-> "no_text"])
                /\ UNCHANGED storeVars
           ELSE IF lease_data.raised
           THEN /\ resp' = Response("analyze", user_id, RaisedResponse("other"))
                /\ UNCHANGED storeVars
           ELSE /\ ANALYSIS_STORE' =
                       Put(ANALYSIS_STORE, analysis_id,
                           [user_id |-> user_id,
                            all_clauses |-> lease_data.clauses,
                            high_risk_clauses |-> HighRiskOf(lease_data.clauses)])
                /\ USER_ACCESS_STORE' =
                       AppendAnalysisId(USER_ACCESS_STORE, user_id, analysis_id)
                /\ resp' = Response("analyze", user_id, [status |-> 200, body |-> "success"])
                /\ UNCHANGED USER_FREE_ANALYSIS_STORE
        /\ UNCHANGED <<bypass_users, access_info>>

analyze_lease(user_id, files, fault, full_text, lease_data) ==
    IF ~AnalyzeGate(user_id)
    THEN /\ resp' = Response("analyze", user_id, [status |-> 403, body |-> "access_denied"])
         /\ temp' = NoTemp
         /\ UNCHANGED <<storeVars, bypass_users, access_info>>
    ELSE analyze_admitted(user_id, files, fault, full_text, lease_data)

MarkFreeUsed_Noop(store, user_id) == store

MarkFreeUsed(store, user_id) == Put(store, user_id, TRUE)

\* ocr_lease, lease_routes.py:681-818, with extract_lease_from_file
\* (ocr_service.py:463-539), which raises when no text is read
OcrDenied_Never(user_id) == FALSE

OcrDenied(user_id) ==
    /\ ~should_bypass_test_user(user_id)
    /\ ~check_user_access(user_id).has_access
    /\ Get(USER_FREE_ANALYSIS_STORE, user_id, FALSE)

\* lines 741-760: the access check and the flip of the free-analysis flag
ocr_check_FlagPaid(user_id) ==
    LET bypass == should_bypass_test_user(user_id)
        info == check_user_access(user_id)
    IN  /\ access_info' = IF bypass THEN access_info ELSE info
        /\ USER_FREE_ANALYSIS_STORE' =
               IF ~bypass /\ ~OcrDenied(user_id)
               THEN MarkFreeUsed(USER_FREE_ANALYSIS_STORE, user_id)
               ELSE USER_FREE_ANALYSIS_STORE
        /\ UNCHANGED <<USER_ACCESS_STORE, ANALYSIS_STORE, bypass_users>>

ocr_check(user_id) ==
    LET bypass == should_bypass_test_user(user_id)
        info == check_user_access(user_id)
        checked == ~bypass /\ ~info.has_access
    IN  /\ access_info' = IF bypass THEN access_info ELSE info
        /\ USER_FREE_ANALYSIS_STORE' =
               IF checked /\ ~OcrDenied(user_id)
               THEN MarkFreeUsed(USER_FREE_ANALYSIS_STORE, user_id)
               ELSE USER_FREE_ANALYSIS_STORE
        /\ UNCHANGED <<USER_ACCESS_STORE, ANALYSIS_STORE, bypass_users>>

\* lines 762-818: the uploads, the extraction and the finally block
ocr_admitted(user_id, files, fault, full_text) ==
    LET st == ocr_loop(files, fault, 1, LoopStart)
        exc == IF st.exc # "none" THEN st.exc
               ELSE IF st.images = <<>> THEN "no_pages"
               ELSE IF IsBlank(full_text) THEN "other"
               ELSE "none"
    IN  /\ temp' = [acquired |-> st.acquired, listed |-> st.listed,
                    released |-> Finally(st.listed, exc)]
        /\ resp' = IF exc = "none"
                   THEN Response("ocr", user_id, [status |-> 200, body |-> "success"])
                   ELSE Response("ocr", user_id, RaisedResponse(exc))

ocr_lease(user_id, files, fault, full_text) ==
    /\ ocr_check(user_id)
    /\ IF OcrDenied(user_id)
       THEN /\ resp' = Response("ocr", user_id,
                                [status |-> 403, body |-> "FREE_LIMIT_REACHED"])
            /\ temp' = NoTemp
       ELSE ocr_admitted(user_id, files, fault, full_text)

\* check_lease_access, lease_routes.py:834-862
check_lease_access(user_id) ==
    LET info == check_user_access(user_id)
    IN  /\ access_info' = info
        /\ resp' = Response("access", user_id,
                            [status |-> 200,
                             body |-> IF info.has_access THEN "has_active_plan"
                                                         ELSE "no_active_plan"])
        /\ UNCHANGED <<storeVars, bypass_users, temp>>

\* get_full_report, lease_routes.py:865-925
get_full_report_OwnerOnly(analysis_id, user_id) ==
    /\ resp' = Response("report", user_id,
                        IF analysis_id \notin DOMAIN ANALYSIS_STORE
                        THEN [status |-> 404, body |-> "not_found"]
                        ELSE IF ANALYSIS_STORE[analysis_id].user_id # user_id
                        THEN [status |-> 403, body |-> "access_denied"]
                        ELSE [status |-> 200, body |-> "success"])
    /\ access_info' = IF analysis_id \in DOMAIN ANALYSIS_STORE
                      THEN check_user_access(user_id) ELSE access_info
    /\ UNCHANGED <<storeVars, bypass_users, temp>>

get_full_report(analysis_id, user_id) ==
    /\ resp' = Response("report", user_id,
                        IF analysis_id \notin DOMAIN ANALYSIS_STORE
                        THEN [status |-> 404, body |-> "not_found"]
                        ELSE IF /\ ANALYSIS_STORE[analysis_id].user_id # user_id
                                /\ ~check_user_access(user_id).has_access
                        THEN [status |-> 403, body |-> "access_denied"]
                        ELSE [status |-> 200, body |-> "success"])
    /\ access_info' = IF analysis_id \in DOMAIN ANALYSIS_STORE
                      THEN check_user_access(user_id) ELSE access_info
    /\ UNCHANGED <<storeVars, bypass_users, temp>>

----------------------------------------------------------------------------
(* The gate specification: grants, gated requests and the clock *)

Plans == {"monthly", "yearly"}
NoFault == [at |-> 0, where |-> "save", exc |-> "other"]
OneImage == <<[kind |-> "image", pages |-> 0]>>
NoClauses == [raised |-> FALSE, clauses |-> <<>>]
OcrTexts == {<<>>, <<" ", "\n">>, <<" ", "r", "e", "n", "t">>}

Init ==
    /\ StoresEmpty
    /\ bypass_users \in SUBSET {"u2"}

GrantAccess ==
    /\ \E u \in Users, plan \in Plans : grant_access(u, plan)
    /\ UNCHANGED <<inflight, billingVars, now, rateVars, call>>

AnalyzeLease ==
    /\ Cardinality(DOMAIN ANALYSIS_STORE) < MaxAnalyses
    /\ \E u \in Users, full_text \in OcrTexts : analyze_lease(u, OneImage, NoFault, full_text, NoClauses)
    /\ UNCHANGED <<inflight, billingVars, now, rateVars, call>>

OcrLease ==
    /\ \E u \in Users, full_text \in OcrTexts : ocr_lease(u, OneImage, NoFault, full_text)
    /\ UNCHANGED <<inflight, billingVars, now, rateVars, call>>

CheckLeaseAccess ==
    /\ \E u \in Users : check_lease_access(u)
    /\ UNCHANGED <<inflight, billingVars, now, rateVars, call>>

\* a report is asked for a stored analysis or for an identifier never issued
GetFullReport ==
    /\ \E analysis_id \in DOMAIN ANALYSIS_STORE \cup {<<None, 0>>}, u \in Users :
          get_full_report(analysis_id, u)
    /\ UNCHANGED <<inflight, billingVars, now, rateVars, call>>

Tick ==
    /\ now + GateClockStep <= MaxGateTicks * GateClockStep
    /\ now' = now + GateClockStep
    /\ UNCHANGED <<inflight, billingVars, rateVars, gateVars, call>>

Next == GrantAccess \/ AnalyzeLease \/ OcrLease \/ CheckLeaseAccess \/ Tick

Spec == Init /\ [][Next]_vars

\* the report specification: grants, analyses, report requests and the clock
NextReport == GrantAccess \/ AnalyzeLease \/ GetFullReport \/ Tick

SpecReport == InitNoBypass /\ [][NextReport]_vars

----------------------------------------------------------------------------
(* The upload specification: one user sending one request at a time, every  *)
(* shape of upload list and every place where a collaborator can raise.     *)
(* resp is the response on its way to the client; the client sends the next *)
(* request once it has received it.                                          *)

MaxFiles == 2           \* uploads in one request
MaxFileAnalyses == 1    \* analyses stored before /analyze stops being called

FilesUser == "u1"
UploadLists ==
    LET Uploads == {[kind |-> "pdf", pages |-> n] : n \in {0, 1, MAX_PAGES + 1}}
                       \cup {[kind |-> k, pages |-> 0] : k \in {"image", "other"}}
    IN  UNION {[1..n -> Uploads] : n \in 0..MaxFiles}
\* the places where a collaborator can raise while `files` is processed:
\* save_upload_file for any upload, pdf_to_images for a PDF
Faults(files) ==
    {NoFault} \cup {f \in [at : 1..Len(files), where : {"save", "pdf"}, exc : {"http", "other"}] :
                        f.where = "pdf" => files[f.at].kind = "pdf"}
PageTexts == {<<>>, <<"r", "e", "n", "t">>}

MaxExtracted == 2       \* clauses in the dict the extraction returns

GrantFiles ==
    /\ grant_access(FilesUser, "yearly")
    /\ UNCHANGED <<inflight, billingVars, now, rateVars, call>>

AnalyzeFiles ==
    LET LeaseDatas ==
            LET \* clauses the extraction can return: a seven-character heading, a money
                \* clause labelled caution, and a plain clause labelled high or danger
                ExtractedClauses ==
                    {[clause_text |-> <<"S", "e", "c", "t", "i", "o", "n">>, risk_level |-> "low"],
                     [clause_text |-> <<"$", "2", "5", " ", "l", "a", "t", "e", " ", "f", "e", "e">>,
                      risk_level |-> "caution"]}
                    \cup {[clause_text |-> <<"N", "o", " ", "p", "e", "t", "s", " ", "a", "l", "l", "o", "w", "e", "d">>,
                           risk_level |-> risk] : risk \in {"high", "danger"}}
            IN  {[raised |-> TRUE, clauses |-> <<>>]}
                \cup {[raised |-> FALSE, clauses |-> clauses] :
                         clauses \in UNION {[1..n -> ExtractedClauses] : n \in 0..MaxExtracted}}
    IN  /\ resp = NoResp
        /\ Cardinality(DOMAIN ANALYSIS_STORE) < MaxFileAnalyses
        /\ \E files \in UploadLists :
               \E fault \in Faults(files), full_text \in PageTexts, lease_data \in LeaseDatas :
                   analyze_lease(FilesUser, files, fault, full_text, lease_data)
        /\ UNCHANGED <<inflight, billingVars, now, rateVars, call>>

OcrFiles ==
    /\ resp = NoResp
    /\ \E files \in UploadLists : \E fault \in Faults(files), full_text \in PageTexts :
           ocr_lease(FilesUser, files, fault, full_text)
    /\ UNCHANGED <<inflight, billingVars, now, rateVars, call>>

\* the response reaches the client and the request is over
DeliverFiles ==
    /\ resp # NoResp
    /\ resp' = NoResp
    /\ temp' = NoTemp
    /\ UNCHANGED <<inflight, billingVars, now, rateVars, storeVars, bypass_users, access_info, call>>

NextFiles == GrantFiles \/ AnalyzeFiles \/ OcrFiles \/ DeliverFiles

SpecFiles == InitNoBypass /\ [][NextFiles]_vars

----------------------------------------------------------------------------
(* Properties of the gate and of the coordinators *)

GrantActive(u) == u \in DOMAIN USER_ACCESS_STORE /\ now < USER_ACCESS_STORE[u].expires_at
IdsOf(u) == USER_ACCESS_STORE[u].analysis_ids
ActiveWithCapacity(u) == GrantActive(u) /\ Len(IdsOf(u)) < 5
ActiveExhausted(u) == GrantActive(u) /\ Len(IdsOf(u)) >= 5
FreeUsed(u) == u \in DOMAIN USER_FREE_ANALYSIS_STORE /\ USER_FREE_ANALYSIS_STORE[u]

\* a step that is one request to the handler op
IsRequest(op) == resp'.seq # resp.seq /\ resp'.op = op

\* a step in which check_user_access was called for the requesting user
IsAccessCheck ==
    \/ IsRequest("access")
    \/ IsRequest("ocr") /\ resp'.user_id \notin bypass_users

\* C4: the access check of a user whose grant expires in the future and
\* whose analysis_ids has length 5 returns has_access = false with reason
\* "lease_limit_reached".
C4_LimitReachedDenied ==
    [][(IsAccessCheck /\ GrantActive(resp'.user_id) /\ Len(IdsOf(resp'.user_id)) = 5) =>
            access_info' = [user_id |-> resp'.user_id, has_access |-> FALSE,
                            reason |-> "lease_limit_reached"]]_vars

\* /access has just answered a user with an unexpired grant and 5 analyses
C4_Witness ==
    /\ resp.op = "access"
    /\ GrantActive(resp.user_id)
    /\ Len(IdsOf(resp.user_id)) = 5
    /\ access_info.user_id = resp.user_id
    /\ ~access_info.has_access

\* C5: /analyze lets a request past the gate only when the user's grant is
\* present, unexpired and holds fewer than 5 analysis_ids.
C5_AdmittedOnlyWithCapacity ==
    [][(IsRequest("analyze") /\ resp'.body # "access_denied") =>
            ActiveWithCapacity(resp'.user_id)]_vars

\* C6: no user's analysis_ids is ever longer than 5.
C6_AnalysisIdsWithinLimit ==
    \A u \in DOMAIN USER_ACCESS_STORE : Len(IdsOf(u)) <= 5

\* C7 as amended: the free-analysis flag never returns to unused; for a user
\* who is not exempted as a test user and has no unexpired grant, a
\* successful /ocr call leaves the flag used, and a call made with the flag
\* used is denied with FREE_LIMIT_REACHED.
FlagNeverCleared == \A u \in Users : FreeUsed(u) => FreeUsed(u)'

FreeTierStep(u) ==
    /\ (~FreeUsed(u) /\ resp'.body = "success") => FreeUsed(u)'
    /\ FreeUsed(u) => (resp'.status = 403 /\ resp'.body = "FREE_LIMIT_REACHED")

C7_FreeTierOneShotUnlessExempt ==
    [][/\ FlagNeverCleared
       /\ \A u \in Users \ bypass_users :
              (IsRequest("ocr") /\ resp'.user_id = u /\ ~GrantActive(u)) => FreeTierStep(u)]_vars

\* a non-exempt user without a grant has just been refused a second analysis
C7_Witness ==
    /\ resp.op = "ocr"
    /\ resp.body = "FREE_LIMIT_REACHED"
    /\ resp.user_id \notin bypass_users
    /\ resp.user_id \notin DOMAIN USER_ACCESS_STORE
    /\ FreeUsed(resp.user_id)

\* C7 as stated: the same for every user with no unexpired grant.
C7_FreeTierOneShot ==
    [][/\ FlagNeverCleared
       /\ \A u \in Users :
              (IsRequest("ocr") /\ resp'.user_id = u /\ ~GrantActive(u)) => FreeTierStep(u)]_vars

\* C8: an inadmissible /analyze request is denied, with a no-access denial
\* when the user has no unexpired grant and with a lease-limit-reached denial
\* when the unexpired grant holds 5 or more analysis_ids.
C8_DenialNamesItsCause ==
    [][IsRequest("analyze") =>
          /\ ~GrantActive(resp'.user_id) =>
                (resp'.status = 403 /\ resp'.body = "access_denied")
          /\ ActiveExhausted(resp'.user_id) =>
                (resp'.status = 403 /\ resp'.body = "lease_limit_reached")]_vars

\* how many times path p is handed to cleanup_file
Releases(p) == Cardinality({i \in 1..Len(temp.released) : temp.released[i] = p})
Paths(list) == {list[i] : i \in 1..Len(list)}

\* C9: when a request has ended, every temp path it acquired (saved upload
\* or PDF page image) has been released exactly once, and nothing else has
\* been released.
C9_TempReleasedOnce ==
    /\ \A p \in Paths(temp.acquired) : Releases(p) = 1
    /\ Paths(temp.released) \subseteq Paths(temp.acquired)

\* /analyze was left by an exception raised in the loop after a saved upload
\* and PDF page images had been acquired
C9_Witness ==
    /\ resp.op = "analyze"
    /\ resp.body \in {"error", "http_error"}
    /\ Len(temp.acquired) >= 3
    /\ Len(temp.released) >= 3

----------------------------------------------------------------------------
(* The extraction orchestrator, services/ocr_service.py.  Python values are *)
(* tagged: JNull is None, JStr(s) a str (s a sequence of characters),       *)
(* JNum(n) a number, JList(l) a list.                                       *)
(* A dict is a function on its field names; Absent marks a missing key.     *)

JNull == [t |-> "null"]
JStr(s) == [t |-> "str", s |-> s]
JNum(n) == [t |-> "num", n |-> n]
JList(l) == [t |-> "list", l |-> l]
Absent == [t |-> "absent"]

LeaseKeys == {"rent", "deposit", "term_months", "start_date", "end_date", "landlord",
              "tenant", "risk_score", "risk_level", "red_flags", "negotiation_tips",
              "summary", "clauses"}

LOW == <<"l", "o", "w">>
MEDIUM == <<"m", "e", "d", "i", "u", "m">>
HIGH == <<"h", "i", "g", "h">>

IsNone(value) == value.t = "null"

\* DEFAULT_LEASE_DATA, ocr_service.py:19-33
DEFAULT_LEASE_DATA ==
    [k \in LeaseKeys |->
        CASE k = "risk_score" -> JNum(50)
          [] k = "risk_level" -> JStr(MEDIUM)
          [] k = "red_flags" -> JList(<<"Could not parse lease details">>)
          [] k = "negotiation_tips" -> JList(<<"Review document manually">>)
          [] k = "summary" -> JStr(<<"Analysis incomplete due to parsing error.">>)
          [] k = "clauses" -> JList(<<>>)
          [] OTHER -> JNull]

Digits == {"0", "1", "2", "3", "4", "5", "6", "7", "8", "9"}

DigitOf(d) == CASE d = 0 -> "0" [] d = 1 -> "1" [] d = 2 -> "2" [] d = 3 -> "3"
                [] d = 4 -> "4" [] d = 5 -> "5" [] d = 6 -> "6" [] d = 7 -> "7"
                [] d = 8 -> "8" [] d = 9 -> "9"

\* str(value) of a str or of a non-negative int
RECURSIVE IntToStr(_)
IntToStr(n) == IF n < 10 THEN <<DigitOf(n)>> ELSE Append(IntToStr(n \div 10), DigitOf(n % 10))

PyStr(value) == IF value.t = "num" THEN IntToStr(value.n) ELSE value.s

\* re.sub(r"[^\d.]", "", text), ocr_service.py:361-366
StripNonNumeric(text) ==
    LET numeric(c) == c \in Digits \cup {"."} IN SelectSeq(text, numeric)

\* the merge of the recovered object into the defaults, ocr_service.py:343-351
\* key in parsed and parsed[key] is not None and parsed[key] != ""
Supplied(parsed, key) ==
    /\ parsed[key].t # "absent"
    /\ ~IsNone(parsed[key])
    /\ ~(parsed[key].t = "str" /\ parsed[key].s = <<>>)

Merge(parsed) ==
    [key \in LeaseKeys |-> IF Supplied(parsed, key) THEN parsed[key] ELSE DEFAULT_LEASE_DATA[key]]

\* the regex fallback fills the fields that are still None, ocr_service.py:355-360
FallbackFields == {"rent", "deposit", "term_months", "start_date"}

ApplyFallback_Overwrite(result, regex_fallbacks) ==
    [key \in LeaseKeys |->
        IF key \in FallbackFields /\ regex_fallbacks[key].t # "absent"
        THEN regex_fallbacks[key] ELSE result[key]]

ApplyFallback(result, regex_fallbacks) ==
    [key \in LeaseKeys |->
        IF key \in FallbackFields /\ IsNone(result[key]) /\ regex_fallbacks[key].t # "absent"
        THEN regex_fallbacks[key] ELSE result[key]]

\* ocr_service.py:361-366
CleanAmounts_DollarOnly(result) ==
    LET NotDollar(c) == c # "$"
    IN  [key \in LeaseKeys |->
            IF key \in {"rent", "deposit"} /\ ~IsNone(result[key])
            THEN JStr(SelectSeq(PyStr(result[key]), NotDollar)) ELSE result[key]]

CleanAmounts(result) ==
    [key \in LeaseKeys |->
        IF key \in {"rent", "deposit"} /\ ~IsNone(result[key])
        THEN JStr(StripNonNumeric(PyStr(result[key]))) ELSE result[key]]

\* result.get("risk_level") in ("low", "medium", "high")
IsValidLevel(value) == value.t = "str" /\ value.s \in {LOW, MEDIUM, HIGH}

\* ocr_service.py:367-379
DeriveRisk(result) ==
    LET scored == IF IsNone(result["risk_score"])
                  THEN [result EXCEPT !["risk_score"] = JNum(50)] ELSE result
        score == scored["risk_score"]
        level == IF score.t = "num"
                 THEN IF score.n <= 40 THEN JStr(LOW)
                      ELSE IF score.n <= 70 THEN JStr(MEDIUM)
                      ELSE JStr(HIGH)
                 ELSE JStr(MEDIUM)
    IN  IF ~IsValidLevel(scored["risk_level"])
        THEN [scored EXCEPT !["risk_level"] = level] ELSE scored

\* ocr_service.py:389-390
EnsureClauses(result) ==
    IF IsNone(result["clauses"]) THEN [result EXCEPT !["clauses"] = JList(<<>>)] ELSE result

\* regex_extract_fallback, ocr_service.py:138-164.  The searches of the
\* patterns in the text are its input: found[field] is
\* [pattern, group], the position in REGEX_PATTERNS[field] of the first
\* pattern that matches (0 when none does) and the text of its group 1.
RegexFields == {"rent", "deposit", "term_months", "start_date", "landlord", "tenant"}

\* the one pattern of term_months whose text contains "year", ocr_service.py:49
YearPattern == 3

\* int(value) of a run of digits
RECURSIVE StrToInt(_)
StrToInt(text) ==
    LET DigitValue(c) == CASE c = "0" -> 0 [] c = "1" -> 1 [] c = "2" -> 2 [] c = "3" -> 3
                           [] c = "4" -> 4 [] c = "5" -> 5 [] c = "6" -> 6 [] c = "7" -> 7
                           [] c = "8" -> 8 [] c = "9" -> 9
    IN  IF text = <<>> THEN 0
        ELSE 10 * StrToInt(SubSeq(text, 1, Len(text) - 1))
             + DigitValue(text[Len(text)])

regex_extract_fallback(found) ==
    [field \in LeaseKeys |->
        IF field \notin RegexFields \/ found[field].pattern = 0 THEN Absent
        ELSE IF field = "term_months"
        THEN IF found[field].pattern = YearPattern
             THEN JNum(StrToInt(found[field].group) * 12)
             ELSE JNum(StrToInt(found[field].group))
        ELSE IF field \in {"rent", "deposit"}
        THEN JStr(<<"$">> \o found[field].group)
        ELSE JStr(found[field].group)]

\* the guard before the LLM is reached, ocr_service.py:300-305
EarlyDefault_EmptyOnly(full_text, api_key) == full_text = <<>> \/ ~api_key

EarlyDefault(full_text, api_key) == IsBlank(full_text) \/ ~api_key

\* analyze_lease_via_deepseek, ocr_service.py:292-405.
\*   api_key         whether settings.DEEPSEEK_API_KEY is set
\*   llm.client      "ok", or "raise" when OpenAI(...) raises (line 306, outside the try)
\*   llm.reply       "ok", or "raise" when the completion request raises
\*   llm.parsed      what extract_json_from_llm_response returns for the reply:
\*                   "none", "object" (llm.object is the dict), "empty_list"
\*                   (an empty list or str: falsy, and `key in parsed` is
\*                   False), "zero" (0 or false: falsy, and `key in parsed`
\*                   raises TypeError) or "scalar" (a truthy non-dict, on
\*                   which parsed.get raises AttributeError)
\*   found           what the searches of regex_extract_fallback find in
\*                   full_text
\* The value is [raised, invoked, result]: whether the call raised to its
\* caller, whether the completion request was sent, and the returned dict.
analyze_lease_via_deepseek(full_text, api_key, llm, found) ==
    IF EarlyDefault(full_text, api_key)
    THEN [raised |-> FALSE, invoked |-> FALSE, result |-> DEFAULT_LEASE_DATA]
    ELSE IF llm.client = "raise"
    THEN [raised |-> TRUE, invoked |-> FALSE, result |-> DEFAULT_LEASE_DATA]
    ELSE IF llm.reply = "raise" \/ llm.parsed \in {"none", "scalar", "zero"}
    THEN [raised |-> FALSE, invoked |-> TRUE, result |-> DEFAULT_LEASE_DATA]
    ELSE LET parsed == IF llm.parsed = "object" THEN llm.object
                       ELSE [key \in LeaseKeys |-> Absent]
         IN  [raised |-> FALSE, invoked |-> TRUE,
              result |-> EnsureClauses(DeriveRisk(CleanAmounts(
                             ApplyFallback(Merge(parsed),
                                           regex_extract_fallback(found)))))]

----------------------------------------------------------------------------
(* The extraction specification: one call at a time, over every document   *)
(* text, configuration, LLM outcome and fallback result of the sets below  *)

MaxTextLen == 2         \* characters of a document text

NoFields == [key \in LeaseKeys |-> Absent]

\* the dicts the recovery step can hand back: one family varies the rent and
\* the risk fields, the other the fields the regex fallback can fill
RiskObjects ==
    {[NoFields EXCEPT !["rent"] = r, !["risk_score"] = sc, !["risk_level"] = lv,
                      !["clauses"] = cl] :
        r \in {Absent, JNull, JStr(<<>>), JStr(<<"$", "1", ",", "2", "0", "0">>), JNum(685)},
        sc \in {Absent, JNull, JNum(40), JNum(41), JNum(70), JNum(71), JStr(HIGH)},
        lv \in {Absent, JStr(LOW), JStr(<<"H", "I", "G", "H">>), JNum(3)},
        cl \in {Absent, JNull, JList(<<"clause_1">>)}}

KeyInfoObjects ==
    {[NoFields EXCEPT !["rent"] = r, !["deposit"] = d, !["term_months"] = tm,
                      !["start_date"] = sd, !["landlord"] = ll, !["end_date"] = ll] :
        r \in {Absent, JNull, JStr(<<>>), JStr(<<"N", "/", "A">>), JStr(<<"9", "5", "0">>)},
        d \in {Absent, JStr(<<"$", "5", "0", "0">>)},
        tm \in {Absent, JNull, JNum(0), JNum(6)},
        sd \in {Absent, JStr(<<>>), JStr(<<"2012-07-01">>)},
        ll \in {Absent, JNull}}

LlmFailures ==
    {[client |-> "raise", reply |-> "ok", parsed |-> "none", object |-> NoFields],
     [client |-> "ok", reply |-> "raise", parsed |-> "none", object |-> NoFields]}
    \cup {[client |-> "ok", reply |-> "ok", parsed |-> p, object |-> NoFields] :
             p \in {"none", "empty_list", "scalar", "zero"}}

\* what group 1 of a rent or deposit pattern can capture, [\d,]+(?:\.\d{2})?,
\* ocr_service.py:37-44
MaxAmountLen == 4       \* characters of a captured amount

IsAmount(text) ==
    LET whole(n) == n >= 1 /\ \A i \in 1..n : text[i] \in Digits \cup {","}
    IN  \/ whole(Len(text))
        \/ /\ Len(text) >= 4
           /\ whole(Len(text) - 3)
           /\ text[Len(text) - 2] = "."
           /\ text[Len(text) - 1] \in Digits
           /\ text[Len(text)] \in Digits

MatchedAmounts ==
    {text \in UNION {[1..n -> {"6", ",", "."}] : n \in 1..MaxAmountLen} : IsAmount(text)}

NothingFound == [field \in RegexFields |-> [pattern |-> 0, group |-> <<>>]]

AllFound ==
    [field \in RegexFields |->
        CASE field = "rent" -> [pattern |-> 2, group |-> <<"6", "8", "5", ".", "0", "0">>]
          [] field = "deposit" -> [pattern |-> 1, group |-> <<"1", ",", "6", "8", "5">>]
          [] field = "term_months" -> [pattern |-> YearPattern, group |-> <<"1">>]
          [] field = "start_date" -> [pattern |-> 1, group |-> <<"July 1, 2012">>]
          [] field = "landlord" -> [pattern |-> 1, group |-> <<"Robert Johnson">>]
          [] field = "tenant" -> [pattern |-> 1, group |-> <<"Mary Williams">>]]

\* the calls of the specification: every text and configuration against one
\* LLM outcome of each kind, and the text with content against every LLM
\* outcome and every finding
ExtractCalls ==
    LET RegexFindings ==
            {NothingFound, AllFound}
            \cup {[NothingFound EXCEPT !["rent"] = [pattern |-> 1, group |-> amount]] :
                     amount \in MatchedAmounts}
            \cup {[NothingFound EXCEPT !["term_months"] = [pattern |-> 1, group |-> <<"1", "2">>]],
                  [NothingFound EXCEPT !["term_months"] = [pattern |-> 4,
                                                           group |-> <<"2", "0", "1", "3">>]]}
        LlmOutcomes ==
            LlmFailures
            \cup {[client |-> "ok", reply |-> "ok", parsed |-> "object", object |-> o] :
                     o \in RiskObjects \cup KeyInfoObjects}
    IN  {[full_text |-> full_text, api_key |-> api_key, llm |-> llm, found |-> found] :
            full_text \in (UNION {[1..n -> {" ", "\n", "$", "7"}] : n \in 0..MaxTextLen}), api_key \in BOOLEAN,
            llm \in LlmFailures \cup
                    {[client |-> "ok", reply |-> "ok", parsed |-> "object",
                      object |-> [NoFields EXCEPT !["rent"] = JNum(685)]]},
            found \in {NothingFound, AllFound}}
        \* a text with content, for the calls that reach the LLM
        \cup {[full_text |-> <<"$", "7">>, api_key |-> TRUE, llm |-> llm, found |-> found] :
                 llm \in LlmOutcomes, found \in RegexFindings}

\* a caller invokes analyze_lease_via_deepseek and the call runs to its end
Extract ==
    /\ call = NoExtract
    /\ \E c \in ExtractCalls :
          LET out == analyze_lease_via_deepseek(c.full_text, c.api_key, c.llm, c.found)
          IN  call' = [state |-> "returned", full_text |-> c.full_text,
                       api_key |-> c.api_key, llm |-> c.llm, found |-> c.found,
                       regex_fallbacks |-> regex_extract_fallback(c.found),
                       raised |-> out.raised, invoked |-> out.invoked,
                       result |-> out.result]
    /\ UNCHANGED <<inflight, billingVars, now, rateVars, gateVars>>

\* the caller has taken the value
ExtractDone ==
    /\ call # NoExtract
    /\ call' = NoExtract
    /\ UNCHANGED <<inflight, billingVars, now, rateVars, gateVars>>

NextExtract == Extract \/ ExtractDone

SpecExtract == InitNoBypass /\ [][NextExtract]_vars

\* C10: for every document text that is empty or only whitespace, the call
\* returns the default-failure object (risk_score 50, risk_level "medium",
\* rent, deposit, term_months, start_date, end_date, landlord and tenant
\* null, clauses empty) and the LLM backend is not invoked.
OnlyWhitespace(text) == \A i \in 1..Len(text) : text[i] \in {" ", "\n", "\t"}

C10_BlankTextGivesDefault ==
    (call.state = "returned" /\ OnlyWhitespace(call.full_text)) =>
        /\ ~call.raised
        /\ ~call.invoked
        /\ call.result["risk_score"] = JNum(50)
        /\ call.result["risk_level"] = JStr(MEDIUM)
        /\ \A k \in {"rent", "deposit", "term_months", "start_date", "end_date",
                     "landlord", "tenant"} : call.result[k] = JNull
        /\ call.result["clauses"] = JList(<<>>)
        /\ call.result = DEFAULT_LEASE_DATA

\* a call on a whitespace-only text with the key configured, the LLM ready
\* to answer with an object and the fallback ready to supply a rent
C10_Witness ==
    /\ call.state = "returned"
    /\ Len(call.full_text) = 2
    /\ OnlyWhitespace(call.full_text)
    /\ call.api_key
    /\ call.llm.parsed = "object"
    /\ call.regex_fallbacks["rent"].t = "str"
    /\ ~call.invoked

\* C11: the call never raises to its caller, and on each failure path (blank
\* text, no API key, the client constructor or the completion request
\* raising, no value recovered from the reply, a recovered value that is not
\* an object) it returns the default-failure object, which carries every
\* canonical field.
FailurePath ==
    \/ OnlyWhitespace(call.full_text)
    \/ ~call.api_key
    \/ call.llm.client = "raise"
    \/ call.llm.reply = "raise"
    \/ call.llm.parsed # "object"

C11_NeverRaisesDefaultOnFailure ==
    call.state = "returned" =>
        /\ ~call.raised
        /\ DOMAIN call.result = LeaseKeys
        /\ FailurePath => call.result = DEFAULT_LEASE_DATA

\* the calls that went through the merge, and the object that was merged
Completed ==
    /\ call.state = "returned"
    /\ call.invoked
    /\ call.llm.reply = "ok"
    /\ call.llm.parsed \in {"object", "empty_list"}

LlmObject == IF call.llm.parsed = "object" THEN call.llm.object ELSE NoFields

AmountFields == {"rent", "deposit"}

\* the final value a field has when it is taken from `source`
FinalFrom(source, field) ==
    IF field \in AmountFields THEN JStr(StripNonNumeric(PyStr(source[field])))
    ELSE source[field]

LevelOf(score) == IF score <= 40 THEN LOW ELSE IF score <= 70 THEN MEDIUM ELSE HIGH

\* C15: in every returned result risk_level is "low", "medium" or "high",
\* and whenever the label of the LLM object was absent or not one of the
\* three, risk_level is the level of the final risk_score: low up to 40,
\* medium from 41 to 70, high above 70.
C15_RiskLevelValidAndDerived ==
    (call.state = "returned" /\ ~call.raised) =>
        /\ IsValidLevel(call.result["risk_level"])
        /\ (Completed /\ ~IsValidLevel(LlmObject["risk_level"])
                /\ call.result["risk_score"].t = "num") =>
              call.result["risk_level"] = JStr(LevelOf(call.result["risk_score"].n))

----------------------------------------------------------------------------
(* extract_json_from_llm_response, ocr_service.py:167-234.  A reply is a    *)
(* sequence of characters.  json.loads is modelled on a JSON subset whose   *)
(* tokens are single characters: "1" a number, "[" "]" the empty list,      *)
(* "{" "}" an object, "k" a member name with its colon; an object has at    *)
(* most one member.  Whitespace may stand between any two tokens.           *)

\* the grave accent U+0060 of a markdown fence is written "^" in this module
Backtick == "^"

Fence == <<Backtick, Backtick, Backtick>>

\* nesting depth the pattern of ocr_service.py:221 can match
RegexNesting == 3

startswith(s, prefix) == Len(s) >= Len(prefix) /\ SubSeq(s, 1, Len(prefix)) = prefix

endswith(s, suffix) ==
    Len(s) >= Len(suffix) /\ SubSeq(s, Len(s) - Len(suffix) + 1, Len(s)) = suffix

Occurrences(s, sub) ==
    {i \in 1..(Len(s) - Len(sub) + 1) : SubSeq(s, i, i + Len(sub) - 1) = sub}

\* str.find and str.rfind, as 1-based positions; 0 stands for -1
find(s, sub) ==
    IF Occurrences(s, sub) = {} THEN 0
    ELSE CHOOSE i \in Occurrences(s, sub) : \A j \in Occurrences(s, sub) : i <= j

rfind(s, sub) ==
    IF Occurrences(s, sub) = {} THEN 0
    ELSE CHOOSE i \in Occurrences(s, sub) : \A j \in Occurrences(s, sub) : i >= j

\* s[n:] and s[:n]
Drop(s, n) == SubSeq(s, n + 1, Len(s))

\* str.lstrip(chars)
RECURSIVE lstrip_of(_, _)
lstrip_of(s, chars) == IF s = <<>> THEN s
                       ELSE IF Head(s) \in chars THEN lstrip_of(Tail(s), chars) ELSE s

RECURSIVE IsJsonValue(_)
IsJsonValue(tokens) ==
    \/ tokens = <<"1">>
    \/ tokens = <<"[", "]">>
    \/ tokens = <<"{", "}">>
    \/ /\ Len(tokens) >= 4
       /\ tokens[1] = "{" /\ tokens[2] = "k" /\ tokens[Len(tokens)] = "}"
       /\ IsJsonValue(SubSeq(tokens, 3, Len(tokens) - 1))

\* json.loads: ok is FALSE for a JSONDecodeError; the value is the token
\* sequence of the text, which is equal for equal parsed values
json_loads(text) ==
    LET IsToken(c) == c \notin {" ", "\n", "\t"}
        tokens == SelectSeq(text, IsToken)
    IN  IF IsJsonValue(tokens) THEN [ok |-> TRUE, value |-> tokens]
        ELSE [ok |-> FALSE, value |-> <<>>]

\* the markdown stripping of ocr_service.py:185-198
StripFences(clean) ==
    LET first_newline == find(clean, <<"\n">>)
        opened == IF startswith(clean, Fence \o <<"j", "s", "o", "n">>)
                  THEN lstrip_of(Drop(clean, 7), {"\n"})
                  ELSE IF startswith(clean, Fence)
                  THEN IF first_newline # 0 THEN Drop(clean, first_newline)
                       ELSE Drop(clean, 3)
                  ELSE clean
        closed == IF endswith(opened, Fence)
                  THEN rstrip(SubSeq(opened, 1, rfind(opened, Fence) - 1))
                  ELSE opened
    IN  strip(closed)

\* clean[brace_start : brace_end + 1], or <<>> when line 210 is false
BraceCandidate_FirstClose(clean) ==
    LET brace_start == find(clean, <<"{">>)
        brace_end == find(clean, <<"}">>)
    IN  IF brace_start # 0 /\ brace_end # 0 /\ brace_end > brace_start
        THEN SubSeq(clean, brace_start, brace_end) ELSE <<>>

BraceCandidate(clean) ==
    LET brace_start == find(clean, <<"{">>)
        brace_end == rfind(clean, <<"}">>)
    IN  IF brace_start # 0 /\ brace_end # 0 /\ brace_end > brace_start
        THEN SubSeq(clean, brace_start, brace_end) ELSE <<>>

\* where a match of json_pattern that starts at position i ends, or 0: the
\* pattern matches a brace-balanced run nested at most RegexNesting deep
RECURSIVE PatternEnd(_, _, _)
PatternEnd(s, j, depth) ==
    IF j > Len(s) THEN 0
    ELSE IF s[j] = "{"
    THEN IF depth = RegexNesting THEN 0 ELSE PatternEnd(s, j + 1, depth + 1)
    ELSE IF s[j] = "}"
    THEN IF depth = 1 THEN j ELSE PatternEnd(s, j + 1, depth - 1)
    ELSE PatternEnd(s, j + 1, depth)

MatchEnd(s, i) == IF s[i] = "{" THEN PatternEnd(s, i + 1, 1) ELSE 0

\* re.findall(json_pattern, clean): the non-overlapping matches, left to right
RECURSIVE findall(_, _)
findall(s, i) ==
    IF i > Len(s) THEN <<>>
    ELSE IF MatchEnd(s, i) # 0
    THEN <<SubSeq(s, i, MatchEnd(s, i))>> \o findall(s, MatchEnd(s, i) + 1)
    ELSE findall(s, i + 1)

\* the loop of ocr_service.py:223-229
RECURSIVE FirstParseable(_)
FirstParseable(matches) ==
    IF matches = <<>> THEN [ok |-> FALSE, value |-> <<>>]
    ELSE IF json_loads(Head(matches)).ok THEN json_loads(Head(matches))
    ELSE FirstParseable(Tail(matches))

\* The value is [strategy, value]: the step that produced the result
\* ("none" when the function returns None) and the parsed value.
extract_json_from_llm_response_RegexFirst(raw_content) ==
    LET trimmed == strip(raw_content)
        clean == StripFences(trimmed)
        candidate == BraceCandidate(clean)
        by_regex == FirstParseable(findall(clean, 1))
    IN  IF raw_content = <<>> THEN [strategy |-> "none", value |-> <<>>]
        ELSE IF json_loads(trimmed).ok
        THEN [strategy |-> "direct", value |-> json_loads(trimmed).value]
        ELSE IF json_loads(clean).ok
        THEN [strategy |-> "markdown", value |-> json_loads(clean).value]
        ELSE IF by_regex.ok
        THEN [strategy |-> "regex", value |-> by_regex.value]
        ELSE IF candidate # <<>> /\ json_loads(candidate).ok
        THEN [strategy |-> "braces", value |-> json_loads(candidate).value]
        ELSE [strategy |-> "none", value |-> <<>>]

extract_json_from_llm_response(raw_content) ==
    LET trimmed == strip(raw_content)
        clean == StripFences(trimmed)
        candidate == BraceCandidate(clean)
        by_regex == FirstParseable(findall(clean, 1))
    IN  IF raw_content = <<>> THEN [strategy |-> "none", value |-> <<>>]
        ELSE IF json_loads(trimmed).ok
        THEN [strategy |-> "direct", value |-> json_loads(trimmed).value]
        ELSE IF json_loads(clean).ok
        THEN [strategy |-> "markdown", value |-> json_loads(clean).value]
        ELSE IF candidate # <<>> /\ json_loads(candidate).ok
        THEN [strategy |-> "braces", value |-> json_loads(candidate).value]
        ELSE IF by_regex.ok
        THEN [strategy |-> "regex", value |-> by_regex.value]
        ELSE [strategy |-> "none", value |-> <<>>]

----------------------------------------------------------------------------
(* The recovery specification: extract_json_from_llm_response applied to    *)
(* replies assembled from an opener, a body and a closer                    *)

MaxNesting == 4         \* nesting depth of the objects in a reply

RECURSIVE Nested(_)
Nested(depth) == IF depth = 0 THEN <<"{", "}">>
                 ELSE <<"{", "k">> \o Nested(depth - 1) \o <<"}">>

ReplyBodies ==
    LET ObjectTexts ==
            {Nested(depth) : depth \in 0..MaxNesting}
            \cup {<<"{", "k", "1", "}">>,
                  <<"{", "\n", " ", "k", " ", "1", "\n", "}">>,
                  <<" ", "{", "k", "[", "]", "}", "\n">>}
    IN  ObjectTexts
        \cup {<<>>, <<" ">>, <<"1">>, <<"[", "]">>,
              <<"{", "k", "1">>, <<"{", "k", "}">>,
              <<"x", " ", "{", "k", "1", "}", " ", "x">>,
              <<"{", "x", "}", " ", "{", "k", "1", "}">>}

FenceClosers == {Fence, <<"\n">> \o Fence, <<"\n">> \o Fence \o <<"\n">>}

\* a reply is handed to extract_json_from_llm_response
Recover ==
    LET Openers ==
            LET FenceTags == {<<>>, <<"j", "s", "o", "n">>, <<"J", "S", "O", "N">>, <<"j", "s">>,
                              <<"j", "s", "o", "n", "5">>}
            IN  {[kind |-> "fence", tag |-> tag, sep |-> sep] :
                    tag \in FenceTags, sep \in {<<"\n">>, <<" ">>, <<>>}}
                \cup {[kind |-> "none", tag |-> <<>>, sep |-> <<>>],
                      [kind |-> "prose", tag |-> <<"x">>, sep |-> <<" ">>]}
        OpenerText(opener) ==
            (IF opener.kind = "fence" THEN Fence ELSE <<>>) \o opener.tag \o opener.sep
    IN  /\ call = NoExtract
        /\ \E opener \in Openers, body \in ReplyBodies, closer \in (FenceClosers \cup {<<>>, <<" ", "x">>}) :
              LET raw_content == OpenerText(opener) \o body \o closer
              IN  call' = [state |-> "recovered", opener |-> opener, body |-> body,
                           closer |-> closer, raw_content |-> raw_content,
                           out |-> extract_json_from_llm_response(raw_content)]
        /\ UNCHANGED <<inflight, billingVars, now, rateVars, gateVars>>

NextRecover == Recover \/ ExtractDone

SpecRecover == InitNoBypass /\ [][NextRecover]_vars

IsObjectText(text) == json_loads(text).ok /\ Head(json_loads(text).value) = "{"

\* the reply is a fenced block: an opening line of the fence and a tag, the
\* body, and the closing fence
ProperFence ==
    /\ call.opener.kind = "fence"
    /\ call.opener.sep = <<"\n">>
    /\ call.closer \in FenceClosers

FirstToLast(text) ==
    LET opens == {i \in 1..Len(text) : text[i] = "{"}
        closes == {i \in 1..Len(text) : text[i] = "}"}
    IN  IF opens = {} \/ closes = {} THEN <<>>
        ELSE LET first == CHOOSE i \in opens : \A j \in opens : i <= j
                 last == CHOOSE i \in closes : \A j \in closes : i >= j
             IN  IF last > first THEN SubSeq(text, first, last) ELSE <<>>

\* what each strategy yields for a reply, in the order of the cascade
Strategies == <<"direct", "markdown", "braces", "regex">>
Tried(raw_content) ==
    LET unfenced == StripFences(strip(raw_content))
    IN  <<json_loads(strip(raw_content)),
          json_loads(unfenced),
          json_loads(FirstToLast(unfenced)),
          FirstParseable(findall(unfenced, 1))>>

\* C22: the recovery tries, in this order, the direct parse of the trimmed
\* text, the parse after the fence stripping, the parse of the substring
\* from the first "{" to the last "}", and the first parseable match of the
\* brace pattern; it returns the result of the first that succeeds, and
\* None when none succeeds or the reply is empty.
C22_FirstSuccessfulStrategy ==
    call.state = "recovered" =>
        LET tried == Tried(call.raw_content)
            succeeded == {i \in 1..4 : tried[i].ok}
        IN  IF call.raw_content = <<>> \/ succeeded = {}
            THEN call.out.strategy = "none"
            ELSE LET first == CHOOSE i \in succeeded : \A j \in succeeded : i <= j
                 IN  /\ call.out.strategy = Strategies[first]
                     /\ call.out.value = tried[first].value

\* two brace groups in a row, the first not JSON: the first three strategies
\* fail and the second match of the pattern is returned
C22_Witness ==
    /\ call.state = "recovered"
    /\ call.raw_content = <<"{", "x", "}", " ", "{", "k", "1", "}">>
    /\ call.out.strategy = "regex"
    /\ call.out.value = <<"{", "k", "1", "}">>

----------------------------------------------------------------------------
(* filter_and_extract_high_risk_clauses, utils/text_parser.py:288-341.  A   *)
(* clause is a dict, a function on the keys it has; its clause_text is a    *)
(* sequence of characters.                                                  *)

\* the length under which a clause text needs a digit, a currency symbol or
\* a date to be kept, text_parser.py:325
ShortTextLen == 15

\* a character outside ASCII is written as its code point: "U+20AC" is the
\* euro sign, "U+00A3" the pound sign, "U+00A5" the yen sign
CurrencySymbols == {"$", "U+20AC", "U+00A3", "U+00A5"}

money_termination_keywords ==
    {<<"r", "e", "n", "t">>,
     <<"f", "e", "e">>,
     <<"d", "e", "p", "o", "s", "i", "t">>,
     <<"t", "e", "r", "m", "i", "n", "a", "t", "i", "o", "n">>,
     <<"t", "e", "r", "m", "i", "n", "a", "t", "e">>,
     <<"p", "e", "n", "a", "l", "t", "y">>,
     <<"c", "h", "a", "r", "g", "e">>,
     <<"p", "a", "y", "m", "e", "n", "t">>,
     <<"l", "a", "t", "e">>,
     <<"e", "v", "i", "c", "t">>,
     <<"b", "r", "e", "a", "k">>,
     <<"c", "a", "n", "c", "e", "l">>,
     <<"U+79DF", "U+91D1">>,
     <<"U+8D39", "U+7528">>,
     <<"U+62BC", "U+91D1">>,
     <<"U+7EC8", "U+6B62">>,
     <<"U+8FDD", "U+7EA6">>,
     <<"U+7F5A", "U+6B3E">>,
     <<"U+6EDE", "U+7EB3", "U+91D1">>,
     <<"U+89E3", "U+7EA6">>}

UpperCase == <<"A", "B", "C", "D", "E", "F", "G", "H", "I", "J", "K", "L", "M", "N", "O", "P", "Q", "R", "S", "T", "U", "V", "W", "X", "Y", "Z">>

\* str.lower()
lower(text) ==
    LET LowerCase == <<"a", "b", "c", "d", "e", "f", "g", "h", "i", "j", "k", "l", "m", "n", "o", "p", "q", "r", "s", "t", "u", "v", "w", "x", "y", "z">>
        low(c) == IF \E i \in 1..Len(UpperCase) : UpperCase[i] = c
                  THEN LowerCase[CHOOSE i \in 1..Len(UpperCase) : UpperCase[i] = c]
                  ELSE c
    IN  [i \in 1..Len(text) |-> low(text[i])]

\* sub in text
contains(text, sub) == Occurrences(text, sub) # {}

\* any(c.isdigit() for c in text)
has_digits(text) == \E i \in 1..Len(text) : text[i] \in Digits

has_currency(text) == \E i \in 1..Len(text) : text[i] \in CurrencySymbols

\* re.search(r"\d{1,2}[/-]\d{1,2}[/-]\d{2,4}", text)
has_date_pattern(text) ==
    LET digits(from, n) == /\ from + n - 1 <= Len(text)
                           /\ \A k \in from..(from + n - 1) : text[k] \in Digits
        separator(at) == at <= Len(text) /\ text[at] \in {"/", "-"}
    IN  \E i \in 1..Len(text), a \in 1..2, b \in 1..2 :
            /\ digits(i, a)
            /\ separator(i + a)
            /\ digits(i + a + 1, b)
            /\ separator(i + a + 1 + b)
            /\ digits(i + a + b + 2, 2)

\* the test of text_parser.py:325-331 that skips a clause
IsNoise_LengthOnly(text) == Len(text) < ShortTextLen

IsNoise(text) ==
    /\ Len(text) < ShortTextLen
    /\ ~(has_digits(text) \/ has_currency(text) \/ has_date_pattern(text))

\* any(kw in text_lower or kw in text for kw in money_termination_keywords)
HasKeyword_CaseSensitive(text) ==
    \E kw \in money_termination_keywords : contains(text, kw)

HasKeyword(text) ==
    \E kw \in money_termination_keywords : contains(lower(text), kw) \/ contains(text, kw)

\* the tests of text_parser.py:335-339 that put a kept clause in high_risk
IsHighRisk(text, risk) ==
    \/ risk = "danger"
    \/ risk = "caution" /\ HasKeyword(text)

\* list.append
Collect_Front(list, clause) == <<clause>> \o list

Collect(list, clause) == Append(list, clause)

\* the loop of text_parser.py:320-339 from clause i on
RECURSIVE FilterLoop(_, _, _, _)
FilterLoop(clauses, i, filtered, high_risk) ==
    IF i > Len(clauses) THEN [filtered |-> filtered, high_risk |-> high_risk]
    ELSE LET clause == clauses[i]
             text == Get(clause, "clause_text", <<>>)
             risk == Get(clause, "risk_level", "")
         IN  IF IsNoise(text) THEN FilterLoop(clauses, i + 1, filtered, high_risk)
             ELSE FilterLoop(clauses, i + 1, Collect(filtered, clause),
                             IF IsHighRisk(text, risk) THEN Collect(high_risk, clause)
                             ELSE high_risk)

filter_and_extract_high_risk_clauses(clauses) == FilterLoop(clauses, 1, <<>>, <<>>)

----------------------------------------------------------------------------
(* The filter specification: filter_and_extract_high_risk_clauses applied   *)
(* to every list of at most MaxClauses of the clauses below                 *)

MaxClauses == 2         \* clauses in a list

TextSection == <<"S", "e", "c", "t", "i", "o", "n">>
TextLateFee == <<"$", "2", "5", " ", "l", "a", "t", "e", " ", "f", "e", "e">>
TextPlain == <<"N", "o", " ", "p", "e", "t", "s", " ", "a", "l", "l", "o", "w", "e", "d">>
TextNonRefundable == <<"I", "t", " ", "i", "s", " ", "n", "o", "n", "-", "r", "e", "f", "u", "n", "d", "a", "b", "l", "e">>
TextDepositNonRefundable == <<"D", "e", "p", "o", "s", "i", "t", " ", "i", "s", " ", "n", "o", "n", "-", "r", "e", "f", "u", "n", "d", "a", "b", "l", "e">>

ClauseTexts ==
    {TextSection, TextLateFee, TextPlain, TextNonRefundable, TextDepositNonRefundable,
     <<>>,
     <<"N", "o", " ", "p", "e", "t", "s", " ", "h", "e", "r", "e", "!", "!">>,
     <<"U+20AC", " ", "d", "u", "e">>,
     <<"U", "n", "i", "t", " ", "4">>,
     <<"1", "/", "2", "/", "1", "2">>,
     <<"L", "A", "T", "E", " ", "F", "E", "E", " ", "a", "p", "p", "l", "i", "e", "s", " ", "n", "o", "w">>,
     <<"U+62BC", "U+91D1", "2">>}

Clause(text, risk) ==
    [key \in {"clause_text", "risk_level"} |-> IF key = "clause_text" THEN text ELSE risk]

SampleClauses ==
    {Clause(text, "caution") : text \in ClauseTexts}
    \cup {Clause(text, risk) :
             text \in {TextSection, TextLateFee, TextPlain, TextNonRefundable},
             risk \in {"danger", "caution", "safe"}}
    \* a clause of the extraction prompt, which has no clause_text key
    \cup {[key \in {"risk_level"} |-> "danger"]}

\* a clause list is handed to filter_and_extract_high_risk_clauses
Filter ==
    /\ call = NoExtract
    /\ \E clauses \in (UNION {[1..n -> SampleClauses] : n \in 0..MaxClauses}) :
          LET out == filter_and_extract_high_risk_clauses(clauses)
          IN  call' = [state |-> "filtered", clauses |-> clauses,
                       filtered |-> out.filtered, high_risk |-> out.high_risk]
    /\ UNCHANGED <<inflight, billingVars, now, rateVars, gateVars>>

NextFilter == Filter \/ ExtractDone

SpecFilter == InitNoBypass /\ [][NextFilter]_vars

TextOf(clause) == Get(clause, "clause_text", <<>>)

Elements(list) == {list[i] : i \in 1..Len(list)}

\* a text with no digit, no currency symbol and no date-like substring
Bare(text) ==
    /\ \A i \in 1..Len(text) : text[i] \notin Digits \cup CurrencySymbols
    /\ ~has_date_pattern(text)

\* C16: a clause is discarded exactly when its text is shorter than 15
\* characters and has no digit, no currency symbol and no date-like
\* substring; a clause "Section" is dropped, a clause "$25 late fee" is kept.
C16_DiscardIffShortAndBare ==
    call.state = "filtered" =>
        LET Stays(clause) == ~(Len(TextOf(clause)) < 15 /\ Bare(TextOf(clause)))
        IN  /\ call.filtered = SelectSeq(call.clauses, Stays)
            /\ \A clause \in Elements(call.clauses) :
                  /\ TextOf(clause) = TextSection => clause \notin Elements(call.filtered)
                  /\ TextOf(clause) = TextLateFee => clause \in Elements(call.filtered)

\* the list "Section", "$25 late fee" comes back as "$25 late fee" alone
C16_Witness ==
    /\ call.state = "filtered"
    /\ call.clauses = <<Clause(TextSection, "safe"), Clause(TextLateFee, "caution")>>
    /\ call.filtered = <<Clause(TextLateFee, "caution")>>

NonRefundable == SubSeq(TextNonRefundable, 7, 20)

\* the text has a money/termination keyword, in whatever case
NamesMoneyOrTermination(text) ==
    \E kw \in money_termination_keywords : contains(lower(text), kw)

\* what the claim says of the kept clauses, but for the "non-refundable" part
EscalationRule ==
    \A clause \in Elements(call.filtered) :
        LET risk == Get(clause, "risk_level", "")
        IN  /\ risk = "danger" => clause \in Elements(call.high_risk)
            /\ risk = "caution" =>
                  (clause \in Elements(call.high_risk)
                      <=> NamesMoneyOrTermination(TextOf(clause)))
            /\ risk = "safe" => clause \notin Elements(call.high_risk)

\* C17 as stated: a kept clause of the highest category is in high_risk; one
\* of the middle category is in high_risk exactly when its text has a
\* money/termination keyword, and is in high_risk when its text contains
\* "non-refundable"; one of the lowest category is never in high_risk.
C17_EscalationWithNonRefundable ==
    call.state = "filtered" =>
        /\ EscalationRule
        /\ \A clause \in Elements(call.filtered) :
              (Get(clause, "risk_level", "") = "caution"
                  /\ contains(lower(TextOf(clause)), NonRefundable))
              => clause \in Elements(call.high_risk)

\* C17, amended: a kept clause of the highest category is in high_risk; one
\* of the middle category is in high_risk exactly when its text has a
\* keyword of money_termination_keywords, in which "non-refundable" is not:
\* a middle-category clause with "non-refundable" and no keyword is not in
\* high_risk; one of the lowest category is never in high_risk.
C17_EscalationByKeyword ==
    call.state = "filtered" =>
        /\ EscalationRule
        /\ \A clause \in Elements(call.filtered) :
              (Get(clause, "risk_level", "") = "caution"
                  /\ TextOf(clause) = TextNonRefundable)
              => clause \notin Elements(call.high_risk)

\* two middle-category clauses with "non-refundable", one with the keyword
\* "deposit" and one without: both are kept, the first alone is escalated
C17_Witness ==
    /\ call.state = "filtered"
    /\ call.clauses = <<Clause(TextDepositNonRefundable, "caution"),
                        Clause(TextNonRefundable, "caution")>>
    /\ Len(call.filtered) = 2
    /\ call.high_risk = <<Clause(TextDepositNonRefundable, "caution")>>

RECURSIVE IsSubsequence(_, _)
IsSubsequence(part, whole) ==
    IF part = <<>> THEN TRUE
    ELSE IF whole = <<>> THEN FALSE
    ELSE IF Head(part) = Head(whole) THEN IsSubsequence(Tail(part), Tail(whole))
    ELSE IsSubsequence(part, Tail(whole))

\* C18: kept is a subsequence of the input in input order, and high_risk a
\* subsequence of kept in the same order: nothing is duplicated, reordered,
\* or in high_risk without being kept.
C18_OrderPreserved ==
    call.state = "filtered" =>
        /\ IsSubsequence(call.filtered, call.clauses)
        /\ IsSubsequence(call.high_risk, call.filtered)
        /\ Len(call.high_risk) <= Len(call.filtered)
        /\ Len(call.filtered) <= Len(call.clauses)

\* two different clauses are kept in their order and both are escalated
C18_Witness ==
    /\ call.state = "filtered"
    /\ Len(call.clauses) = 2
    /\ call.clauses[1] # call.clauses[2]
    /\ call.filtered = call.clauses
    /\ call.high_risk = call.clauses

----------------------------------------------------------------------------
(* Billing, routes/billing_routes.py.  The subscriptions table maps a userId *)
(* to its row; the row's currentPeriodEnd is in hours like every other time. *)
(* db_ok is whether the database can be reached: get_db_connection raises    *)
(* when DATABASE_URL is unset or the connection fails.                       *)

\* grant_user_access, billing_routes.py:84-145
grant_user_access(user_id, plan, db_ok) ==
    LET duration_days == get_subscription_duration(plan)
        expires_at_dt == now + 24 * duration_days
    IN  IF ~db_ok
        THEN /\ granted' = [NoGrant EXCEPT !.user_id = user_id, !.plan = plan,
                                            !.raised = TRUE, !.seq = 1 - granted.seq]
             /\ UNCHANGED subscriptions
        ELSE /\ subscriptions' = Put(subscriptions, user_id,
                                     [currentPeriodEnd |-> expires_at_dt])
             /\ granted' = [user_id |-> user_id, plan |-> plan, raised |-> FALSE,
                            is_paid |-> TRUE, paid_at |-> now,
                            expires_at |-> expires_at_dt,
                            analysis_ids |-> <<>>,
                            seq |-> 1 - granted.seq]

----------------------------------------------------------------------------
(* The billing specification: grants through grant_user_access next to the  *)
(* in-memory grant, the gated requests and the clock                        *)

MaxBillingAnalyses == 2     \* analyses stored before /analyze stops being called

GrantUserAccess ==
    /\ \E plan \in Plans, db_ok \in BOOLEAN : grant_user_access(FilesUser, plan, db_ok)
    /\ UNCHANGED <<PENDING_PAYMENTS, webhook, inflight, now, rateVars, gateVars, call>>

AnalyzeBilling ==
    /\ Cardinality(DOMAIN ANALYSIS_STORE) < MaxBillingAnalyses
    /\ analyze_lease(FilesUser, OneImage, NoFault, <<"r", "e", "n", "t">>, NoClauses)
    /\ UNCHANGED <<inflight, billingVars, now, rateVars, call>>

CheckBilling ==
    /\ check_lease_access(FilesUser)
    /\ UNCHANGED <<inflight, billingVars, now, rateVars, call>>

NextBilling == GrantUserAccess \/ GrantFiles \/ AnalyzeBilling \/ CheckBilling \/ Tick

SpecBilling == InitNoBypass /\ [][NextBilling]_vars

----------------------------------------------------------------------------
(* Properties of the billing grant *)

\* a step in which grant_user_access returned
IsGrant == granted'.seq # granted.seq /\ ~granted'.raised

\* the analysis history of a user before the grant
HistoryOf(u) == IF u \in DOMAIN USER_ACCESS_STORE THEN IdsOf(u) ELSE <<>>

\* C19: a grant made with plan monthly expires 30 days after grant time and
\* one made with plan yearly 365 days after it, and the grant of a user who
\* already has a record carries that user's existing analysis_ids, so that
\* its analysis_ids is empty only when there was no history to keep.
C19_ExpiryAndHistoryKept ==
    [][IsGrant =>
          /\ granted'.plan = "monthly" => granted'.expires_at = now + 24 * 30
          /\ granted'.plan = "yearly" => granted'.expires_at = now + 24 * 365
          /\ granted'.analysis_ids = HistoryOf(granted'.user_id)]_vars

\* the user's row in the subscriptions table has not reached its end
Subscribed(u) == u \in DOMAIN subscriptions /\ now < subscriptions[u].currentPeriodEnd

\* the lease limit is not reached by the analyses the user has stored
BelowLeaseLimit(u) == Len(HistoryOf(u)) < FULL_ANALYSIS_LEASE_LIMIT

\* C20: once grant_user_access has completed for a user and until the
\* expiry it set, the access check the gated operations make for that user
\* reports an active grant, provided the lease limit is not reached.
C20_GrantReadByGate ==
    \A u \in Users :
        (Subscribed(u) /\ BelowLeaseLimit(u)) =>
            /\ has_valid_paid_access(u)
            /\ check_user_access(u).has_access

----------------------------------------------------------------------------
(* Properties of the /analyze coordinator *)

\* C21: an admitted /analyze request whose pages give no text (an empty or
\* whitespace-only full_text) is answered with success = false and the
\* no-text error, which is not the 403 of a denial; it stores no analysis
\* and appends nothing to any analysis_ids.
C21_NoTextFailsWithoutRecord ==
    [][\A u \in Users, full_text \in OcrTexts :
          (/\ OnlyWhitespace(full_text)
           /\ GrantActive(u)
           /\ IsRequest("analyze")
           /\ analyze_lease(u, OneImage, NoFault, full_text, NoClauses)) =>
              /\ resp'.status = 200
              /\ resp'.body = "no_text"
              /\ ANALYSIS_STORE' = ANALYSIS_STORE
              /\ USER_ACCESS_STORE' = USER_ACCESS_STORE]_vars

\* /analyze has just answered an admitted user with the no-text failure
C21_Witness ==
    /\ resp.op = "analyze"
    /\ resp.body = "no_text"
    /\ GrantActive(resp.user_id)

\* C23: the clauses and high_risk_clauses of every stored analysis are the
\* pair the clause filter produces from the extracted clauses: no clause the
\* filter drops as noise is among the clauses, and the high-risk clauses are
\* the ones the filter selects (danger, or caution with a keyword).
C23_StoredClausesAreFiltered ==
    \A a \in DOMAIN ANALYSIS_STORE :
        LET out == filter_and_extract_high_risk_clauses(ANALYSIS_STORE[a].all_clauses)
        IN  /\ ANALYSIS_STORE[a].all_clauses = out.filtered
            /\ ANALYSIS_STORE[a].high_risk_clauses = out.high_risk

\* C24: every successful /analyze stores exactly one new analysis, under an
\* identifier the store did not hold, bound to the requesting user, and
\* appends that identifier once to the end of that user's analysis_ids; the
\* analyses stored before and the records of the other users are unchanged.
C24_OneFreshRecordPerSuccess ==
    [][(IsRequest("analyze") /\ resp'.body = "success") =>
          LET u == resp'.user_id
              new == DOMAIN ANALYSIS_STORE' \ DOMAIN ANALYSIS_STORE
          IN  /\ Cardinality(new) = 1
              /\ \A a \in new :
                    /\ ANALYSIS_STORE'[a].user_id = u
                    /\ USER_ACCESS_STORE'[u].analysis_ids = Append(IdsOf(u), a)
                    /\ \A i \in 1..Len(IdsOf(u)) : IdsOf(u)[i] # a
              /\ USER_ACCESS_STORE'[u].expires_at = USER_ACCESS_STORE[u].expires_at
              /\ \A a \in DOMAIN ANALYSIS_STORE : ANALYSIS_STORE'[a] = ANALYSIS_STORE[a]
              /\ DOMAIN USER_ACCESS_STORE' = DOMAIN USER_ACCESS_STORE
              /\ \A v \in DOMAIN USER_ACCESS_STORE \ {u} :
                    USER_ACCESS_STORE'[v] = USER_ACCESS_STORE[v]]_vars

\* a user's second analysis has just been stored while another user also
\* holds one
C24_Witness ==
    /\ resp.op = "analyze"
    /\ resp.body = "success"
    /\ Len(IdsOf(resp.user_id)) = 2
    /\ \E v \in DOMAIN USER_ACCESS_STORE \ {resp.user_id} : Len(IdsOf(v)) = 1
    /\ Cardinality(DOMAIN ANALYSIS_STORE) = 3

\* C29: /full-report returns a stored analysis only when the identifier is
\* in the analysis store and the requester either is the user the analysis
\* is bound to or has a grant that is unexpired and below the lease limit;
\* an unknown identifier is answered 404, any other requester 403, and no
\* path changes the analysis store, the grant records or the free flags.
C29_ReportOwnerOrPaid ==
    [][\A analysis_id \in DOMAIN ANALYSIS_STORE \cup {<<None, 0>>}, u \in Users :
          (IsRequest("report") /\ get_full_report(analysis_id, u)) =>
              /\ resp'.status = 200 <=>
                    /\ analysis_id \in DOMAIN ANALYSIS_STORE
                    /\ \/ ANALYSIS_STORE[analysis_id].user_id = u
                       \/ ActiveWithCapacity(u)
              /\ analysis_id \notin DOMAIN ANALYSIS_STORE => resp'.status = 404
              /\ (analysis_id \in DOMAIN ANALYSIS_STORE /\ resp'.status # 200) =>
                    resp'.status = 403
              /\ ANALYSIS_STORE' = ANALYSIS_STORE
              /\ USER_ACCESS_STORE' = USER_ACCESS_STORE
              /\ USER_FREE_ANALYSIS_STORE' = USER_FREE_ANALYSIS_STORE]_vars

\* a report has just been returned to a paying user who owns no analysis
\* while another user owns one
C29_Witness ==
    /\ resp.op = "report"
    /\ resp.status = 200
    /\ ActiveWithCapacity(resp.user_id)
    /\ IdsOf(resp.user_id) = <<>>
    /\ ANALYSIS_STORE # <<>>

\* C28: /ocr leaves the paid-usage state alone on every path: it adds no
\* analysis to the analysis store and changes no user's grant record, so
\* the analysis_ids counted against the lease limit change only in an
\* /analyze request of that user; and for a user whose paid access check
\* succeeds it does not set the free-analysis flag.
C28_OcrLeavesPaidUsage ==
    [][/\ IsRequest("ocr") =>
             /\ ANALYSIS_STORE' = ANALYSIS_STORE
             /\ USER_ACCESS_STORE' = USER_ACCESS_STORE
             /\ ActiveWithCapacity(resp'.user_id) =>
                    USER_FREE_ANALYSIS_STORE' = USER_FREE_ANALYSIS_STORE
       /\ \A u \in DOMAIN USER_ACCESS_STORE :
             USER_ACCESS_STORE'[u].analysis_ids # IdsOf(u) =>
                 (IsRequest("analyze") /\ resp'.user_id = u)]_vars

\* /ocr has just served a paying user with stored analyses whose
\* free-analysis flag is unset
C28_Witness ==
    /\ resp.op = "ocr"
    /\ resp.body = "success"
    /\ ActiveWithCapacity(resp.user_id)
    /\ Len(IdsOf(resp.user_id)) >= 1
    /\ ~FreeUsed(resp.user_id)

----------------------------------------------------------------------------
(* The interleaving specification.  The handlers are coroutines of one      *)
(* event loop: a request runs alone from one await to the next.  /analyze   *)
(* awaits save_upload_file (lease_routes.py:520) after its gate (501), /ocr *)
(* awaits save_upload_file (781) or extract_lease_from_file (798) after its *)
(* check and flag flip (741-760).  A suspended request is [op, user_id,     *)
(* tier, ids_seen]: tier is "free" when /ocr admitted it on the free        *)
(* analysis, ids_seen the length of the analysis_ids of the user when it    *)
(* passed the gate.                                                          *)

MaxInflight == 2        \* requests suspended at the same time

Remove(seq, i) == SubSeq(seq, 1, i - 1) \o SubSeq(seq, i + 1, Len(seq))

\* /analyze up to its first await
AnalyzeBegin ==
    LET InflightAnalyses == Cardinality({i \in 1..Len(inflight) : inflight[i].op = "analyze"})
    IN  /\ Len(inflight) < MaxInflight
        /\ Cardinality(DOMAIN ANALYSIS_STORE) + InflightAnalyses < MaxAnalyses
        /\ IF ~AnalyzeGate(FilesUser)
           THEN /\ analyze_lease(FilesUser, OneImage, NoFault, <<>>, NoClauses)
                /\ UNCHANGED inflight
           ELSE /\ inflight' = Append(inflight,
                                      [op |-> "analyze", user_id |-> FilesUser, tier |-> "paid",
                                       ids_seen |-> Len(USER_ACCESS_STORE[FilesUser].analysis_ids)])
                /\ UNCHANGED gateVars
        /\ UNCHANGED <<billingVars, now, rateVars, call>>

\* a suspended /analyze runs to its end; the recheck variant looks at the
\* lease limit again before it stores
AnalyzeResume_Recheck ==
    /\ \E i \in 1..Len(inflight), full_text \in OcrTexts :
          /\ inflight[i].op = "analyze"
          /\ IF check_user_access(inflight[i].user_id).has_access
             THEN analyze_admitted(inflight[i].user_id, OneImage, NoFault, full_text, NoClauses)
             ELSE /\ resp' = Response("analyze", inflight[i].user_id,
                                      [status |-> 403, body |-> "access_denied"])
                  /\ temp' = NoTemp
                  /\ UNCHANGED <<storeVars, bypass_users, access_info>>
          /\ inflight' = Remove(inflight, i)
    /\ UNCHANGED <<billingVars, now, rateVars, call>>

AnalyzeResume ==
    /\ \E i \in 1..Len(inflight), full_text \in OcrTexts :
          /\ inflight[i].op = "analyze"
          /\ analyze_admitted(inflight[i].user_id, OneImage, NoFault, full_text, NoClauses)
          /\ inflight' = Remove(inflight, i)
    /\ UNCHANGED <<billingVars, now, rateVars, call>>

\* /ocr up to its first await
OcrBegin ==
    /\ Len(inflight) < MaxInflight
    /\ ocr_check(FilesUser)
    /\ IF OcrDenied(FilesUser)
       THEN /\ resp' = Response("ocr", FilesUser,
                                [status |-> 403, body |-> "FREE_LIMIT_REACHED"])
            /\ temp' = NoTemp
            /\ UNCHANGED inflight
       ELSE /\ inflight' = Append(inflight,
                                  [op |-> "ocr", user_id |-> FilesUser,
                                   tier |-> IF check_user_access(FilesUser).has_access
                                            THEN "paid" ELSE "free",
                                   ids_seen |-> 0])
            /\ UNCHANGED <<resp, temp>>
    /\ UNCHANGED <<billingVars, now, rateVars, call>>

\* a suspended /ocr runs to its end
OcrResume ==
    /\ \E i \in 1..Len(inflight), full_text \in OcrTexts :
          /\ inflight[i].op = "ocr"
          /\ ocr_admitted(inflight[i].user_id, OneImage, NoFault, full_text)
          /\ inflight' = Remove(inflight, i)
    /\ UNCHANGED <<billingVars, now, rateVars, storeVars, bypass_users, access_info, call>>

NextAsync == GrantFiles \/ AnalyzeBegin \/ AnalyzeResume \/ OcrBegin \/ OcrResume

SpecAsync == InitNoBypass /\ [][NextAsync]_vars

----------------------------------------------------------------------------
(* Properties of interleaved requests *)

\* a step in which a request of the handler op is suspended at its first await
Suspends(op) ==
    /\ Len(inflight') = Len(inflight) + 1
    /\ inflight'[Len(inflight')].op = op

\* a step in which a suspended request of the handler op runs to its end
Resumes(op) == Len(inflight') = Len(inflight) - 1 /\ IsRequest(op)

\* C25: the access check of /analyze and the append of the analysis id are
\* separate steps.  A request that passes the check reserves nothing (the
\* analysis_ids are as before, whatever is already in flight), and when it
\* resumes it is not checked again: it is never denied, and on success its
\* id is appended whatever the list holds by then.  So two requests that
\* both passed the check before either appended are both admitted and both
\* appended.
C25_CheckThenAct ==
    [][/\ Suspends("analyze") =>
             /\ GrantActive(FilesUser)
             /\ USER_ACCESS_STORE' = USER_ACCESS_STORE
             /\ ANALYSIS_STORE' = ANALYSIS_STORE
       /\ Resumes("analyze") =>
             /\ resp'.status # 403
             /\ resp'.body = "success" =>
                    Len(USER_ACCESS_STORE'[resp'.user_id].analysis_ids)
                        = Len(IdsOf(resp'.user_id)) + 1]_vars

\* two requests passed the check while one slot remained (four ids stored);
\* one has appended the fifth id and the other, still in flight, is past
\* the check
C25_Witness ==
    /\ Len(inflight) = 1
    /\ inflight[1].op = "analyze"
    /\ inflight[1].ids_seen = FULL_ANALYSIS_LEASE_LIMIT - 1
    /\ Len(IdsOf(inflight[1].user_id)) = FULL_ANALYSIS_LEASE_LIMIT
    /\ resp.op = "analyze"
    /\ resp.body = "success"

FreeInflight(u) ==
    {i \in 1..Len(inflight) : inflight[i].op = "ocr" /\ inflight[i].user_id = u
                                  /\ inflight[i].tier = "free"}

\* C26: /ocr checks the free-analysis flag and sets it in one step.  A
\* request is admitted on the free tier only when the flag of its user is
\* unset, the flag is set in the same step, and no other free-tier request
\* of that user is in flight; a request that is not admitted is answered
\* FREE_LIMIT_REACHED.
C26_FreeTierCheckAndFlipAtomic ==
    [][/\ (Suspends("ocr") /\ inflight'[Len(inflight')].tier = "free") =>
             LET u == inflight'[Len(inflight')].user_id
             IN  /\ ~FreeUsed(u)
                 /\ Get(USER_FREE_ANALYSIS_STORE', u, FALSE)
                 /\ FreeInflight(u) = {}
       /\ (IsRequest("ocr") /\ Len(inflight') = Len(inflight)) =>
             /\ resp'.status = 403
             /\ resp'.body = "FREE_LIMIT_REACHED"
             /\ FreeUsed(resp'.user_id)]_vars

\* of two interleaved free-tier requests of a user the first is suspended
\* at its await and the second has been answered FREE_LIMIT_REACHED
C26_Witness ==
    /\ FreeInflight(FilesUser) # {}
    /\ resp.op = "ocr"
    /\ resp.user_id = FilesUser
    /\ resp.body = "FREE_LIMIT_REACHED"
    /\ ~GrantActive(FilesUser)

----------------------------------------------------------------------------
(* The billing webhook, routes/billing_routes.py.  A delivery is the request *)
(* as the handler reads it: the paddle_signature header, the event's fields   *)
(* data.custom_data.user_id, data.checkout.custom_data.user_id, data.id,      *)
(* and data.customer.email (None where absent), and what the billing          *)
(* collaborator answers about it: verified is the result of                   *)
(* verify_webhook_signature, success_event is whether event_type is in        *)
(* PAYMENT_SUCCESS_EVENTS.                                                    *)

SANDBOX_PRICE_IDS == [monthly |-> "pri_01khstd1ehd0v9xs84ev0wttg6",
                      yearly |-> "pri_01khstexva93m2jzdw38cx0gj8"]

LIVE_PRICE_IDS == [monthly |-> "pri_LIVE_MONTHLY_PLACEHOLDER",
                   yearly |-> "pri_LIVE_YEARLY_PLACEHOLDER"]

\* get_plan_from_price_id, billing_routes.py:36-45
get_plan_from_price_id(price_id) ==
    IF \E plan \in DOMAIN SANDBOX_PRICE_IDS : SANDBOX_PRICE_IDS[plan] = price_id
    THEN CHOOSE plan \in DOMAIN SANDBOX_PRICE_IDS : SANDBOX_PRICE_IDS[plan] = price_id
    ELSE IF \E plan \in DOMAIN LIVE_PRICE_IDS : LIVE_PRICE_IDS[plan] = price_id
    THEN CHOOSE plan \in DOMAIN LIVE_PRICE_IDS : LIVE_PRICE_IDS[plan] = price_id
    ELSE "yearly"

\* register_pending_payment, billing_routes.py:171-187
register_pending_payment(user_id, checkout_id) ==
    LET key == IF checkout_id # None THEN checkout_id ELSE user_id
    IN  PENDING_PAYMENTS' = Put(PENDING_PAYMENTS, key,
                                [user_id |-> user_id, checkout_id |-> checkout_id])

\* the user_id the handler settles on after its four lookups,
\* billing_routes.py:348-405, with the email of the last one swapped in first
webhook_user_id_EmailFirst(d) ==
    IF d.custom_data # None THEN d.custom_data
    ELSE IF d.checkout # None THEN d.checkout
    ELSE IF d.customer # None THEN d.customer
    ELSE IF d.id # None /\ d.id \in DOMAIN PENDING_PAYMENTS
    THEN PENDING_PAYMENTS[d.id].user_id
    ELSE None

\* the user_id the handler settles on after its four lookups,
\* billing_routes.py:348-405
webhook_user_id(d) ==
    IF d.custom_data # None THEN d.custom_data
    ELSE IF d.checkout # None THEN d.checkout
    ELSE IF d.id # None /\ d.id \in DOMAIN PENDING_PAYMENTS
    THEN PENDING_PAYMENTS[d.id].user_id
    ELSE IF d.customer # None THEN d.customer
    ELSE None

\* paddle_webhook, billing_routes.py:325-451
paddle_webhook(d, price_id, db_ok) ==
    IF d.signature = "" \/ ~d.verified
    THEN /\ webhook' = [d EXCEPT !.status = 401]
         /\ UNCHANGED <<subscriptions, granted, PENDING_PAYMENTS>>
    ELSE LET user_id == webhook_user_id(d)
             plan == IF price_id # None THEN get_plan_from_price_id(price_id)
                     ELSE "yearly"
         IN  IF d.success_event /\ user_id # None
             THEN /\ grant_user_access(user_id, plan, db_ok)
                  /\ IF ~db_ok
                     THEN /\ webhook' = [d EXCEPT !.status = 500]
                          /\ UNCHANGED PENDING_PAYMENTS
                     ELSE /\ webhook' = [d EXCEPT !.status = 200]
                          /\ PENDING_PAYMENTS' =
                                 IF d.id # None /\ d.id \in DOMAIN PENDING_PAYMENTS
                                 THEN [k \in DOMAIN PENDING_PAYMENTS \ {d.id} |->
                                          PENDING_PAYMENTS[k]]
                                 ELSE PENDING_PAYMENTS
             ELSE /\ webhook' = [d EXCEPT !.status = 200]
                  /\ UNCHANGED <<subscriptions, granted, PENDING_PAYMENTS>>

RegisterPending ==
    /\ \E checkout_id \in {None, "t1"} : register_pending_payment("u3", checkout_id)
    /\ UNCHANGED <<subscriptions, granted, webhook, inflight, now, rateVars, gateVars, call>>

PaddleWebhook ==
    /\ \E d \in [signature : {"", "sig"}, verified : BOOLEAN, success_event : BOOLEAN,
                 custom_data : {None, "u1"}, checkout : {None, "u2"},
                 id : {None, "t1"}, customer : {None, "e1"}, status : {0}],
          price_id \in {None, SANDBOX_PRICE_IDS.yearly},
          db_ok \in BOOLEAN :
           /\ d.signature = "" => ~d.verified
           \* the event of a delivery that stops at the signature is never
           \* read: those deliveries carry a payment-success event that
           \* names its user in data.custom_data or in the pending entry
           /\ ~d.verified => d.success_event /\ d.checkout = None /\ d.customer = None
           /\ paddle_webhook(d, price_id, db_ok)
    /\ UNCHANGED <<inflight, now, rateVars, gateVars, call>>

NextWebhook == RegisterPending \/ PaddleWebhook

SpecWebhook == InitNoBypass /\ [][NextWebhook]_vars

----------------------------------------------------------------------------
(* Properties of the billing webhook *)

\* a step of the webhook handler that changed anything
IsWebhook == webhook'.status # 0 /\ <<webhook, granted>>' # <<webhook, granted>>

\* grant_user_access was called in the step, whether or not it returned
GrantCalled == granted'.seq # granted.seq

\* the first of the four places that names a user, in the order of the claim
Resolved(d) ==
    LET places == << d.custom_data,
                     d.checkout,
                     IF d.id \in DOMAIN PENDING_PAYMENTS
                     THEN PENDING_PAYMENTS[d.id].user_id ELSE None,
                     d.customer >>
        named == {i \in 1..4 : places[i] # None}
    IN  IF named = {} THEN None
        ELSE places[CHOOSE i \in named : \A j \in named : i <= j]

\* the pending-payment map without the entry of a transaction id
PendingWithout(id) ==
    [k \in DOMAIN PENDING_PAYMENTS \ {id} |-> PENDING_PAYMENTS[k]]

\* C30: the webhook calls the grant exactly when the signature is present and
\* verifies, the event is a payment-success event and a user_id is resolved,
\* in the order data.custom_data, checkout.custom_data, the pending-payment
\* entry of the transaction id, the customer email, and it grants to that
\* user; a delivery that makes no grant leaves the subscriptions and the
\* pending-payment map as they were, and one that makes a grant removes the
\* pending entry of its transaction id and no other.
C30_WebhookGrantsOnlyVerifiedResolved ==
    [][IsWebhook =>
          LET d == webhook'
              user_id == Resolved(d)
              made == GrantCalled /\ ~granted'.raised
          IN  /\ GrantCalled <=> (/\ d.signature # ""
                                  /\ d.verified
                                  /\ d.success_event
                                  /\ user_id # None)
              /\ GrantCalled => granted'.user_id = user_id
              /\ ~made => /\ PENDING_PAYMENTS' = PENDING_PAYMENTS
                          /\ subscriptions' = subscriptions
              /\ made => /\ PENDING_PAYMENTS' = PendingWithout(d.id)
                         /\ granted'.user_id \in DOMAIN subscriptions']_vars

\* a grant was made to the user of the pending entry although the delivery
\* carried a customer email, and the entry is gone
C30_Witness ==
    /\ webhook.status = 200
    /\ webhook.custom_data = None
    /\ webhook.checkout = None
    /\ webhook.id = "t1"
    /\ webhook.customer = "e1"
    /\ granted.user_id = "u3"
    /\ ~granted.raised
    /\ "u3" \in DOMAIN subscriptions
    /\ "t1" \notin DOMAIN PENDING_PAYMENTS

====
